---- MODULE Spec2Model ----
(***************************************************************************)
(* The PathStreamer pipeline of parquetjs (lib/pathStreamer.js): one root  *)
(* RowRange per row group flows through the filter phases (index filters,  *)
(* value filters, AND, OR) and then through the field loader.              *)
(***************************************************************************)
EXTENDS Integers, Sequences, FiniteSets, TLC

\* ---------------------------------------------------------------- bounds
MaxRows == 3
MaxVal == 2

\* JavaScript's undefined; every column value is in 1..MaxVal
Undef == -1
\* an omitted path argument
NoPath == "undefined"

Paths == {"a", "b"}
Vals == 1..MaxVal

\* rowGroup, spec: the row group of the reader and the query spec
\* stages: the stages that the constructor has piped together
\* st: the state of every stage; arrived[i]: the ranges pushed into stage i
\* log: the handler runs so far (input range, ranges pushed)
\* offsetIndexPromises, offsetIndex, columnIndexPromises, columnIndex: the
\*   tables of the root RowRange that every derived range shares
\* reads: the reader calls issued; records: the records pushed by loadFields
\* failed: a handler has thrown or a read was rejected
VARIABLES rowGroup, spec, stages, st, arrived, log, offsetIndexPromises, offsetIndex,
          columnIndexPromises, columnIndex, reads, records, failed

vars == <<rowGroup, spec, stages, st, arrived, log, offsetIndexPromises, offsetIndex,
          columnIndexPromises, columnIndex, reads, records, failed>>

\* The caches of lib/pathStreamer.js and lib/pathReader.js (memoize):
\* site: the module whose memoize is called; lru: its QuickLRU;
\* shortMap: the Map of the page futures of pathStreamer.js; cache: the
\*   object cache of the second PathReader
\* calls: the reader calls made by fn(), calls[f] is what future f fetches
\* done: the futures whose fetch has settled; rejected: those that rejected
\* returned: what every memoize call was asked and which future it returned
VARIABLES site, lru, shortMap, cache, calls, done, rejected, returned

memoVars == <<site, lru, shortMap, cache, calls, done, rejected, returned>>

\* search(paths).sort(field) of lib/pathStreamer.js:
\* sortFile: the pages of the sorted column, row group by row group
\* sortPath: the entry of paths for the field
\* sortPages: pages, the pages not yet read
\* sortBuffer: buffer, the records read and held back
\* sortOut: out, the records pushed to the returned stream
\* sortAt: where the promise chain init().then(next) stands
VARIABLES sortFile, sortPath, sortPages, sortBuffer, sortOut, sortAt

sortVars == <<sortFile, sortPath, sortPages, sortBuffer, sortOut, sortAt>>

\* ParquetCursor of lib/pathStreamer.js:
\* cursorFile: metadata.row_groups, the rows of every row group
\* cursorRowGroup: this.rowGroup, the rows materialized and not yet returned
\* rowGroupIndex: this.rowGroupIndex
\* nextResults: what the calls of next() have returned so far
VARIABLES cursorFile, cursorRowGroup, rowGroupIndex, nextResults

cursorVars == <<cursorFile, cursorRowGroup, rowGroupIndex, nextResults>>

\* new PathStreamer(spec, readers) with one entry in spec.filter:
\* filterSpec: the entry of spec.filter
\* construction: "pending", then "thrown" or "constructed"
\* handled: the root RowRanges that the first stage has handled
\* streamError: a handler of the stream has thrown
VARIABLES filterSpec, construction, handled, streamError

ctorVars == <<filterSpec, construction, handled, streamError>>

\* search(paths, options).first() of lib/pathStreamer.js:
\* firstFile: for every row group the records that each of its pages gives
\* concurrency: options.concurrency
\* nextRowGroup: the row groups that the pages stage has taken from its input
\* pagesRunning: the row groups whose pages handler is waiting for its reads
\* resultsQueue: the pages written to the results stage and not yet taken
\* resultsRunning: the pages whose results handler is waiting for its read
\* emitted: the records that the results stream has emitted
\* destroyed: results.destroy() has been called
\* outcome: how the promise of first() is settled
\* fetches: the reader calls, each with whether first() had resolved before
VARIABLES firstFile, concurrency, nextRowGroup, pagesRunning, resultsQueue,
          resultsRunning, emitted, destroyed, outcome, fetches

firstVars == <<firstFile, concurrency, nextRowGroup, pagesRunning, resultsQueue,
               resultsRunning, emitted, destroyed, outcome, fetches>>

\* RowRange objects and their prototype chains:
\* heap: the objects, each with its prototype (0 for none) and own properties
\* made: for every RowRange its object and the call that made it
VARIABLES heap, made

heapVars == <<heap, made>>

\* RowRange.findRelevantPageIndex called on its own:
\* findCalls: the calls so far, each with its rowIndex and its result
VARIABLES findCalls

findVars == <<findCalls>>

\* PathReader.findRelevantPages of lib/pathReader.js:
\* readerPaths: the paths given to the PathReader
\* readerColInfo: the column index of column a, one entry per page
\* relevantPages: how findRelevantPages has settled
VARIABLES readerPaths, readerColInfo, relevantPages

readerVars == <<readerPaths, readerColInfo, relevantPages>>

\* the rounds of next() in search(paths).sort(field), page read by page read:
\* loopFile, loopPath: the pages of the sorted column and the entry of paths
\* loopPages: pages, the pages not yet read; loopTotal: how many init found
\* loopLowestMax: lowestMax of the round; loopReading: the candidates whose
\*   read has not completed; loopData: what candidateResults has collected
\* loopBuffer: buffer; loopOut: out; loopRounds: the calls of next() so far
\* loopAt: where the promise chain init().then(next) stands
VARIABLES loopFile, loopPath, loopPages, loopTotal, loopLowestMax, loopReading,
          loopData, loopBuffer, loopOut, loopRounds, loopAt

loopVars == <<loopFile, loopPath, loopPages, loopTotal, loopLowestMax, loopReading,
              loopData, loopBuffer, loopOut, loopRounds, loopAt>>

\* the state outside the PathStreamer pipeline, and the whole state
outside == <<memoVars, sortVars, cursorVars, ctorVars, firstVars, heapVars, findVars, readerVars, loopVars>>

allVars == <<vars, outside>>

\* a Map without entries
EmptyMap == [k \in {} |-> 0]

\* each part of the state before the code that it belongs to has run
PipelineIdle ==
  /\ rowGroup = <<>> /\ spec = <<>> /\ stages = <<>> /\ st = <<>> /\ arrived = <<>>
  /\ log = {} /\ offsetIndexPromises = {} /\ offsetIndex = {}
  /\ columnIndexPromises = {} /\ columnIndex = {} /\ reads = {} /\ records = <<>>
  /\ failed = FALSE

MemoIdle ==
  /\ site = "" /\ lru = EmptyMap /\ shortMap = EmptyMap /\ cache = EmptyMap
  /\ calls = <<>> /\ done = {} /\ rejected = {} /\ returned = <<>>

SortIdle ==
  /\ sortFile = <<>> /\ sortPath = <<>> /\ sortPages = <<>> /\ sortBuffer = <<>>
  /\ sortOut = <<>> /\ sortAt = ""

CursorIdle ==
  /\ cursorFile = <<>> /\ cursorRowGroup = <<>> /\ rowGroupIndex = 0
  /\ nextResults = <<>>

CtorIdle ==
  /\ filterSpec = <<>> /\ construction = "" /\ handled = 0 /\ streamError = FALSE

FirstIdle ==
  /\ firstFile = <<>> /\ concurrency = 0 /\ nextRowGroup = 0 /\ pagesRunning = {}
  /\ resultsQueue = <<>> /\ resultsRunning = {} /\ emitted = <<>>
  /\ destroyed = FALSE /\ outcome = <<>> /\ fetches = {}

HeapIdle ==
  /\ heap = <<>> /\ made = <<>>

FindIdle ==
  /\ findCalls = {}

ReaderIdle ==
  /\ readerPaths = <<>> /\ readerColInfo = <<>> /\ relevantPages = <<>>

LoopIdle ==
  /\ loopFile = <<>> /\ loopPath = <<>> /\ loopPages = <<>> /\ loopTotal = 0
  /\ loopLowestMax = 0 /\ loopReading = {} /\ loopData = <<>> /\ loopBuffer = <<>>
  /\ loopOut = <<>> /\ loopRounds = 0 /\ loopAt = ""

OutsideIdle == MemoIdle /\ SortIdle /\ CursorIdle /\ CtorIdle /\ FirstIdle /\ HeapIdle /\ FindIdle /\ ReaderIdle /\ LoopIdle

\* the rest of the state, which the code of memoVars leaves alone
MemoAlone == PipelineIdle /\ SortIdle /\ CursorIdle /\ CtorIdle /\ FirstIdle /\ HeapIdle /\ FindIdle /\ ReaderIdle /\ LoopIdle

MemoFrame == UNCHANGED <<vars, sortVars, cursorVars, ctorVars, firstVars, heapVars, findVars, readerVars, loopVars>>

\* the rest of the state, which the code of sortVars leaves alone
SortAlone == PipelineIdle /\ MemoIdle /\ CursorIdle /\ CtorIdle /\ FirstIdle /\ HeapIdle /\ FindIdle /\ ReaderIdle /\ LoopIdle

SortFrame == UNCHANGED <<vars, memoVars, cursorVars, ctorVars, firstVars, heapVars, findVars, readerVars, loopVars>>

\* the rest of the state, which the code of cursorVars leaves alone
CursorAlone == PipelineIdle /\ MemoIdle /\ SortIdle /\ CtorIdle /\ FirstIdle /\ HeapIdle /\ FindIdle /\ ReaderIdle /\ LoopIdle

CursorFrame == UNCHANGED <<vars, memoVars, sortVars, ctorVars, firstVars, heapVars, findVars, readerVars, loopVars>>

\* the rest of the state, which the code of ctorVars leaves alone
CtorAlone == PipelineIdle /\ MemoIdle /\ SortIdle /\ CursorIdle /\ FirstIdle /\ HeapIdle /\ FindIdle /\ ReaderIdle /\ LoopIdle

CtorFrame == UNCHANGED <<vars, memoVars, sortVars, cursorVars, firstVars, heapVars, findVars, readerVars, loopVars>>

\* the rest of the state, which the code of firstVars leaves alone
FirstAlone == PipelineIdle /\ MemoIdle /\ SortIdle /\ CursorIdle /\ CtorIdle /\ HeapIdle /\ FindIdle /\ ReaderIdle /\ LoopIdle

FirstFrame == UNCHANGED <<vars, memoVars, sortVars, cursorVars, ctorVars, heapVars, findVars, readerVars, loopVars>>

\* the rest of the state, which the code of heapVars leaves alone
HeapAlone == PipelineIdle /\ MemoIdle /\ SortIdle /\ CursorIdle /\ CtorIdle /\ FirstIdle /\ FindIdle /\ ReaderIdle /\ LoopIdle

HeapFrame == UNCHANGED <<vars, memoVars, sortVars, cursorVars, ctorVars, firstVars, findVars, readerVars, loopVars>>

\* the rest of the state, which the code of findVars leaves alone
FindAlone == PipelineIdle /\ MemoIdle /\ SortIdle /\ CursorIdle /\ CtorIdle /\ FirstIdle /\ HeapIdle /\ ReaderIdle /\ LoopIdle

FindFrame == UNCHANGED <<vars, memoVars, sortVars, cursorVars, ctorVars, firstVars, heapVars, readerVars, loopVars>>

\* the rest of the state, which the code of readerVars leaves alone
ReaderAlone == PipelineIdle /\ MemoIdle /\ SortIdle /\ CursorIdle /\ CtorIdle /\ FirstIdle /\ HeapIdle /\ FindIdle /\ LoopIdle

ReaderFrame == UNCHANGED <<vars, memoVars, sortVars, cursorVars, ctorVars, firstVars, heapVars, findVars, loopVars>>

\* the rest of the state, which the code of loopVars leaves alone
LoopAlone == PipelineIdle /\ MemoIdle /\ SortIdle /\ CursorIdle /\ CtorIdle /\ FirstIdle /\ HeapIdle /\ FindIdle /\ ReaderIdle

LoopFrame == UNCHANGED <<vars, memoVars, sortVars, cursorVars, ctorVars, firstVars, heapVars, findVars, readerVars>>

\* ------------------------------------------------- JavaScript comparisons
\* a relational operator with an undefined operand is false
JsLt(x, y) == x # Undef /\ y # Undef /\ x < y
JsGt(x, y) == x # Undef /\ y # Undef /\ x > y

\* ------------------------------------------------------------- sequences
RECURSIVE SeqMin(_)
SeqMin(s) == IF Len(s) = 1 THEN s[1]
             ELSE LET m == SeqMin(Tail(s)) IN IF s[1] < m THEN s[1] ELSE m

RECURSIVE SeqMax(_)
SeqMax(s) == IF Len(s) = 1 THEN s[1]
             ELSE LET m == SeqMax(Tail(s)) IN IF s[1] > m THEN s[1] ELSE m

RECURSIVE Flatten(_)
Flatten(ss) == IF ss = <<>> THEN <<>> ELSE ss[1] \o Flatten(Tail(ss))

RemoveAt(s, i) == SubSeq(s, 1, i - 1) \o SubSeq(s, i + 1, Len(s))

\* ------------------------------------------------------- the mock reader
\* the column of a row group as the reader presents it: the page start
\* rows (0-based), the page values, the column index and the statistics
Column(path, pages, stat) ==
  [ path_in_schema |-> path,
    statistics |-> stat,
    page_locations |-> [k \in 1..Len(pages) |-> Len(Flatten(SubSeq(pages, 1, k - 1)))],
    pages |-> pages,
    min_values |-> [k \in 1..Len(pages) |-> SeqMin(pages[k])],
    max_values |-> [k \in 1..Len(pages) |-> SeqMax(pages[k])] ]

\* the pages that the cut rows (first rows of the pages after the first) make of values
RECURSIVE Paginate(_, _, _)
Paginate(values, cuts, from) ==
  IF from > Len(values) THEN <<>>
  ELSE LET nexts == {c \in cuts : c >= from}
           to == IF nexts = {} THEN Len(values)
                 ELSE CHOOSE c \in nexts : \A d \in nexts : c <= d
       IN <<SubSeq(values, from, to)>> \o Paginate(values, cuts, to + 1)

\* the statistics of a column are its extrema; none without values
StatsOf(values) ==
  IF values = <<>> THEN [min_value |-> Undef, max_value |-> Undef]
  ELSE [min_value |-> SeqMin(values), max_value |-> SeqMax(values)]

\* ---------------------------------------------------------------- RowRange
NoBounds == [p \in Paths |-> Undef]

RowRange(rg) ==
  [ lowIndex |-> 0, highIndex |-> rg.num_rows - 1,
    _minValues |-> NoBounds, _maxValues |-> NoBounds ]

\* an extend that keeps the bounds without the path they belong to
extend_AnyPath(r, lowIndex, highIndex, path, pathLowValue, pathHighValue) ==
  [ lowIndex |-> lowIndex, highIndex |-> highIndex,
    _minValues |-> IF path # NoPath THEN [q \in Paths |-> pathLowValue] ELSE r._minValues,
    _maxValues |-> IF path # NoPath THEN [q \in Paths |-> pathHighValue] ELSE r._maxValues ]

extend(r, lowIndex, highIndex, path, pathLowValue, pathHighValue) ==
  [ lowIndex |-> lowIndex, highIndex |-> highIndex,
    _minValues |-> IF path # NoPath THEN [r._minValues EXCEPT ![path] = pathLowValue]
                   ELSE r._minValues,
    _maxValues |-> IF path # NoPath THEN [r._maxValues EXCEPT ![path] = pathHighValue]
                   ELSE r._maxValues ]

minValue(r, path) ==
  IF r._minValues[path] = Undef THEN rowGroup.columns[path].statistics.min_value
  ELSE r._minValues[path]

maxValue(r, path) ==
  IF r._maxValues[path] = Undef THEN rowGroup.columns[path].statistics.max_value
  ELSE r._maxValues[path]

\* page_locations[i].first_row_index, i counted from 0; undefined past the end
FirstRow(path, i) ==
  LET pl == rowGroup.columns[path].page_locations
  IN IF i >= 0 /\ i < Len(pl) THEN pl[i + 1] ELSE Undef

NumPages(path) == Len(rowGroup.columns[path].page_locations)

RECURSIVE FindLoop(_, _, _, _)
FindLoop(path, rowIndex, lowIndex, highIndex) ==
  IF ~(lowIndex < highIndex) THEN lowIndex
  ELSE LET d == highIndex - lowIndex
           midPoint == ((d + 1) \div 2) + lowIndex
           midPointValue == FirstRow(path, midPoint)
       IN IF midPointValue <= rowIndex THEN FindLoop(path, rowIndex, midPoint, highIndex)
          ELSE IF highIndex # midPoint THEN FindLoop(path, rowIndex, lowIndex, midPoint)
          ELSE FindLoop(path, rowIndex, lowIndex, midPoint - 1)

\* a search that compares with < where the code compares with <=
findRelevantPageIndex_Strict(path, rowIndex) ==
  FindLoop(path, rowIndex - 1, 0, NumPages(path) - 1)

findRelevantPageIndex(path, rowIndex) ==
  FindLoop(path, rowIndex, 0, NumPages(path) - 1)

\* ------------------------------------------------------------- predicates
\* a predicate of the filter spec: kind "value" or "range" (index set for
\* the index-only evaluator) or kind "or" over leaf predicates
Leaf(kind, path, value, min, max, index) ==
  [ kind |-> kind, path |-> path, value |-> value, min |-> min, max |-> max,
    index |-> index, items |-> <<>> ]

Or(items) ==
  [ kind |-> "or", path |-> NoPath, value |-> Undef, min |-> Undef, max |-> Undef,
    index |-> FALSE, items |-> items ]

\* FilterRangeIndexPhase.evaluate
RangeIndexEvaluate(p, minV, maxV) ==
  IF p.max # Undef /\ JsLt(p.max, minV) THEN FALSE
  ELSE IF p.min # Undef /\ JsGt(p.min, maxV) THEN FALSE
  ELSE TRUE

\* FilterValueIndexPhase.evaluate
ValueIndexEvaluate(p, minV, maxV) ==
  IF JsGt(minV, p.value) THEN FALSE
  ELSE IF JsLt(maxV, p.value) THEN FALSE
  ELSE TRUE

IndexEvaluate(p, minV, maxV) ==
  IF p.kind = "value" THEN ValueIndexEvaluate(p, minV, maxV)
  ELSE RangeIndexEvaluate(p, minV, maxV)

\* FilterIndexPhase.fastFilter
IndexFastFilter(p, r) ==
  LET rowRangeMinValue == minValue(r, p.path)
      rowRangeMaxValue == maxValue(r, p.path)
  IN ~(rowRangeMinValue # Undef /\ rowRangeMaxValue # Undef
        /\ ~IndexEvaluate(p, rowRangeMinValue, rowRangeMaxValue))

\* FilterRangePhase.evaluate
RangeEvaluate(p, value) ==
  IF p.max # Undef /\ JsLt(p.max, value) THEN FALSE
  ELSE IF p.min # Undef /\ JsGt(p.min, value) THEN FALSE
  ELSE TRUE

\* FilterValuePhase.evaluate
ValueEvaluate(p, value) == value = p.value

Evaluate(p, value) ==
  IF p.kind = "value" THEN ValueEvaluate(p, value) ELSE RangeEvaluate(p, value)

\* a fastFilter that also rejects a range whose lower bound is the max of
\* the predicate, or whose upper bound is its min
RangeFastFilter_Strict(p, r) ==
  LET rowRangeMinValue == minValue(r, p.path)
      rowRangeMaxValue == maxValue(r, p.path)
  IN ~( (rowRangeMinValue # Undef /\ rowRangeMaxValue # Undef
           /\ (p.max # Undef /\ ~JsLt(rowRangeMinValue, p.max)))
        \/ (p.min # Undef /\ ~JsGt(rowRangeMaxValue, p.min)) )

\* FilterRangePhase.fastFilter: && binds tighter than ||
RangeFastFilter(p, r) ==
  LET rowRangeMinValue == minValue(r, p.path)
      rowRangeMaxValue == maxValue(r, p.path)
  IN ~( (rowRangeMinValue # Undef /\ rowRangeMaxValue # Undef
           /\ (p.max # Undef /\ JsGt(rowRangeMinValue, p.max)))
        \/ (p.min # Undef /\ JsLt(rowRangeMaxValue, p.min)) )

\* FilterRangePhase.fastPass
RangeFastPass(p, r) ==
  LET rowRangeMinValue == minValue(r, p.path)
      rowRangeMaxValue == maxValue(r, p.path)
  IN rowRangeMinValue # Undef /\ rowRangeMaxValue # Undef
     /\ (p.min = Undef \/ JsGt(rowRangeMinValue, p.min))
     /\ (p.max = Undef \/ JsLt(rowRangeMaxValue, p.max))

\* FilterValuePhase.fastFilter
ValueFastFilter(p, r) ==
  LET rowRangeMinValue == minValue(r, p.path)
      rowRangeMaxValue == maxValue(r, p.path)
  IN ~(rowRangeMinValue # Undef /\ rowRangeMaxValue # Undef
        /\ (JsGt(rowRangeMinValue, p.value) \/ JsLt(rowRangeMaxValue, p.value)))

\* fastPass of a value predicate that looks at the lower bound only
ValueFastPass_MinOnly(p, r) ==
  LET rowRangeMinValue == minValue(r, p.path)
  IN rowRangeMinValue # Undef /\ rowRangeMinValue = p.value

\* FilterValuePhase.fastPass
ValueFastPass(p, r) ==
  LET rowRangeMinValue == minValue(r, p.path)
      rowRangeMaxValue == maxValue(r, p.path)
  IN rowRangeMinValue # Undef /\ rowRangeMaxValue = rowRangeMinValue
     /\ rowRangeMinValue = p.value

fastPass(p, r) ==
  IF p.kind = "value" THEN ValueFastPass(p, r) ELSE RangeFastPass(p, r)

\* fastFilter of a leaf predicate
LeafFastFilter(p, r) ==
  IF p.index THEN IndexFastFilter(p, r)
  ELSE IF p.kind = "value" THEN ValueFastFilter(p, r)
  ELSE RangeFastFilter(p, r)

\* FilterOrPhase.fastFilter
OrFastFilter(items, r) == \E i \in 1..Len(items) : LeafFastFilter(items[i], r)

ItemFastFilter(it, r) ==
  IF it.kind = "or" THEN OrFastFilter(it.items, r) ELSE LeafFastFilter(it, r)

\* a fastFilter that lets a range through when one item does
AndFastFilter_Any(items, r) == \E i \in 1..Len(items) : ItemFastFilter(items[i], r)

\* FilterAndPhase.fastFilter
AndFastFilter(items, r) == \A i \in 1..Len(items) : ItemFastFilter(items[i], r)

\* ------------------------------------------------------ index-filter stage
ColMin(path, i) ==
  LET mv == rowGroup.columns[path].min_values
  IN IF i >= 0 /\ i < Len(mv) THEN mv[i + 1] ELSE Undef

ColMax(path, i) ==
  LET mv == rowGroup.columns[path].max_values
  IN IF i >= 0 /\ i < Len(mv) THEN mv[i + 1] ELSE Undef

\* the page loop of FilterIndexPhase.pipe; loc holds the nextRange* locals,
\* the ranges pushed so far and whether a TypeError was thrown
RECURSIVE IndexLoop(_, _, _, _, _)
IndexLoop(p, r, i, endingPage, loc) ==
  IF i > endingPage \/ loc.threw THEN loc
  ELSE
    LET maxV == ColMax(p.path, i)
        minV == ColMin(p.path, i)
    IN IF IndexEvaluate(p, minV, maxV)
       THEN LET pageEnd == IF i < NumPages(p.path) - 1
                           THEN FirstRow(p.path, i + 1) - 1 ELSE r.highIndex
                endIndex == IF r.highIndex < pageEnd THEN r.highIndex ELSE pageEnd
            IN IF loc.start = Undef
               THEN IF FirstRow(p.path, i) = Undef
                    THEN [loc EXCEPT !.threw = TRUE]
                    ELSE IndexLoop(p, r, i + 1, endingPage,
                           [loc EXCEPT !.end = endIndex,
                              !.start = IF r.lowIndex > FirstRow(p.path, i)
                                        THEN r.lowIndex ELSE FirstRow(p.path, i),
                              !.lo = minV, !.hi = maxV])
               ELSE IndexLoop(p, r, i + 1, endingPage,
                      [loc EXCEPT !.end = endIndex,
                         !.lo = IF JsLt(loc.lo, minV) THEN loc.lo ELSE minV,
                         !.hi = IF JsGt(loc.hi, maxV) THEN loc.hi ELSE maxV])
       ELSE IF loc.start # Undef
       THEN IndexLoop(p, r, i + 1, endingPage,
              [start |-> Undef, end |-> Undef, lo |-> Undef, hi |-> Undef, threw |-> FALSE,
               out |-> Append(loc.out, extend(r, loc.start, loc.end, p.path, loc.lo, loc.hi))])
       ELSE IndexLoop(p, r, i + 1, endingPage, loc)

\* a handler that pushes the whole range with the bounds of its first page
IndexPipe_FirstPage(p, r) ==
  IF ~IndexFastFilter(p, r) THEN [out |-> <<>>, threw |-> FALSE]
  ELSE IF p.path \notin columnIndex \/ p.path \notin offsetIndex
  THEN [out |-> <<>>, threw |-> TRUE]
  ELSE [out |-> <<extend(r, r.lowIndex, r.highIndex, p.path,
                         ColMin(p.path, findRelevantPageIndex(p.path, r.lowIndex)),
                         ColMax(p.path, findRelevantPageIndex(p.path, r.lowIndex)))>>,
        threw |-> FALSE]

\* a handler that forgets the run that is still open after the last page
IndexPipe_NoFlush(p, r) ==
  IF ~IndexFastFilter(p, r) THEN [out |-> <<>>, threw |-> FALSE]
  ELSE IF p.path \notin columnIndex \/ p.path \notin offsetIndex
  THEN [out |-> <<>>, threw |-> TRUE]
  ELSE
    LET loc == IndexLoop(p, r, findRelevantPageIndex(p.path, r.lowIndex),
                findRelevantPageIndex(p.path, r.highIndex),
                [start |-> Undef, end |-> Undef, lo |-> Undef, hi |-> Undef,
                 threw |-> FALSE, out |-> <<>>])
    IN [out |-> loc.out, threw |-> loc.threw]

\* the handler of FilterIndexPhase.pipe: the ranges pushed, and threw when
\* the handler ends in a TypeError (an index that was never fetched, or no pages)
IndexPipe(p, r) ==
  IF ~IndexFastFilter(p, r) THEN [out |-> <<>>, threw |-> FALSE]
  ELSE IF p.path \notin columnIndex \/ p.path \notin offsetIndex
  THEN [out |-> <<>>, threw |-> TRUE]
  ELSE
    LET startingPage == findRelevantPageIndex(p.path, r.lowIndex)
        endingPage == findRelevantPageIndex(p.path, r.highIndex)
        loc == IndexLoop(p, r, startingPage, endingPage,
                [start |-> Undef, end |-> Undef, lo |-> Undef, hi |-> Undef,
                 threw |-> FALSE, out |-> <<>>])
    IN IF loc.threw THEN [out |-> loc.out, threw |-> TRUE]
       ELSE IF loc.start # Undef
       THEN [out |-> Append(loc.out, extend(r, loc.start, loc.end, p.path, loc.lo, loc.hi)),
             threw |-> FALSE]
       ELSE [out |-> loc.out, threw |-> FALSE]

\* ------------------------------------------------------ value-filter stage
\* a first map that splits by page even when fastPass holds
SplitPipe_NoPass(p, r) ==
  IF ~LeafFastFilter(p, r) THEN [out |-> <<>>, threw |-> FALSE]
  ELSE IF p.path \notin offsetIndex THEN [out |-> <<>>, threw |-> TRUE]
  ELSE
    LET startingPage == findRelevantPageIndex(p.path, r.lowIndex)
        endingPage == findRelevantPageIndex(p.path, r.highIndex)
        piece(i) ==
          LET startIndex == IF i = startingPage THEN r.lowIndex ELSE FirstRow(p.path, i)
              endingIndex == IF i = endingPage THEN r.highIndex
                             ELSE FirstRow(p.path, i + 1) - 1
          IN IF p.path \in columnIndex
             THEN extend(r, startIndex, endingIndex, p.path,
                         ColMin(p.path, i), ColMax(p.path, i))
             ELSE extend(r, startIndex, endingIndex, NoPath, Undef, Undef)
    IN [out |-> [k \in 1..(endingPage - startingPage + 1) |-> piece(startingPage + k - 1)],
        threw |-> FALSE]

\* first map of FilterPhase.pipe: drop, pass, or one range per page
SplitPipe(p, r) ==
  IF ~LeafFastFilter(p, r) THEN [out |-> <<>>, threw |-> FALSE]
  ELSE IF fastPass(p, r) THEN [out |-> <<r>>, threw |-> FALSE]
  ELSE IF p.path \notin offsetIndex THEN [out |-> <<>>, threw |-> TRUE]
  ELSE
    LET startingPage == findRelevantPageIndex(p.path, r.lowIndex)
        endingPage == findRelevantPageIndex(p.path, r.highIndex)
        piece(i) ==
          LET startIndex == IF i = startingPage THEN r.lowIndex ELSE FirstRow(p.path, i)
              endingIndex == IF i = endingPage THEN r.highIndex
                             ELSE FirstRow(p.path, i + 1) - 1
          IN IF p.path \in columnIndex
             THEN extend(r, startIndex, endingIndex, p.path,
                         ColMin(p.path, i), ColMax(p.path, i))
             ELSE extend(r, startIndex, endingIndex, NoPath, Undef, Undef)
    IN [out |-> [k \in 1..(endingPage - startingPage + 1) |-> piece(startingPage + k - 1)],
        threw |-> FALSE]

\* reader.readFlatPage: the values of one page
PageValues(path, pageNo) ==
  IF pageNo >= 0 /\ pageNo < Len(rowGroup.columns[path].pages)
  THEN rowGroup.columns[path].pages[pageNo + 1] ELSE <<>>

ValueAt(values, relativeIndex) ==
  IF relativeIndex >= 0 /\ relativeIndex < Len(values) THEN values[relativeIndex + 1]
  ELSE Undef

\* the row loop of the second map of FilterPhase.pipe
RECURSIVE ScanLoop(_, _, _, _, _, _)
ScanLoop(p, r, values, startingPageRowIndex, i, loc) ==
  IF i > r.highIndex THEN loc
  ELSE
    LET value == ValueAt(values, i - startingPageRowIndex)
    IN IF Evaluate(p, value)
       THEN IF loc.start = Undef
            THEN ScanLoop(p, r, values, startingPageRowIndex, i + 1,
                   [loc EXCEPT !.end = i, !.start = i, !.lo = value, !.hi = value])
            ELSE ScanLoop(p, r, values, startingPageRowIndex, i + 1,
                   [loc EXCEPT !.end = i,
                      !.lo = IF JsLt(loc.lo, value) THEN loc.lo ELSE value,
                      !.hi = IF JsGt(loc.hi, value) THEN loc.hi ELSE value])
       ELSE IF loc.start # Undef
       THEN ScanLoop(p, r, values, startingPageRowIndex, i + 1,
              [start |-> Undef, end |-> Undef, lo |-> Undef, hi |-> Undef,
               out |-> Append(loc.out, extend(r, loc.start, loc.end, p.path, loc.lo, loc.hi))])
       ELSE ScanLoop(p, r, values, startingPageRowIndex, i + 1, loc)

\* the page whose data the scan of r asks for
ScanPage(p, r) == findRelevantPageIndex(p.path, r.lowIndex)

\* the scan of r throws before it reads when the page does not exist
ScanThrows(p, r) ==
  p.path \notin offsetIndex \/ FirstRow(p.path, ScanPage(p, r)) = Undef

\* a scan that indexes the page values by the row index in the row group
ScanRuns_Absolute(p, r) ==
  LET loc == ScanLoop(p, r, PageValues(p.path, ScanPage(p, r)), 0, r.lowIndex,
              [start |-> Undef, end |-> Undef, lo |-> Undef, hi |-> Undef, out |-> <<>>])
  IN IF loc.start # Undef
     THEN Append(loc.out, extend(r, loc.start, loc.end, p.path, loc.lo, loc.hi))
     ELSE loc.out

\* the ranges pushed once the page data has arrived
ScanRuns(p, r) ==
  LET pageIndex == ScanPage(p, r)
      loc == ScanLoop(p, r, PageValues(p.path, pageIndex), FirstRow(p.path, pageIndex),
              r.lowIndex,
              [start |-> Undef, end |-> Undef, lo |-> Undef, hi |-> Undef, out |-> <<>>])
  IN IF loc.start # Undef
     THEN Append(loc.out, extend(r, loc.start, loc.end, p.path, loc.lo, loc.hi))
     ELSE loc.out

\* ------------------------------------------------------------------ OR stage
\* the handler that receives a range r from a child of FilterOrPhase.pipe:
\* sent is sentIndices as the set of claimed row indices
RECURSIVE OrLoop(_, _, _, _)
OrLoop(r, startingIndex, i, s) ==
  IF i > r.highIndex THEN s
  ELSE IF (i - startingIndex) \in s.sent
  THEN IF s.lastUnsentStartIndex # Undef
       THEN OrLoop(r, startingIndex, i + 1,
              [s EXCEPT !.lastUnsentStartIndex = Undef,
                 !.out = Append(s.out,
                           extend(r, s.lastUnsentStartIndex, i - 1, NoPath, Undef, Undef))])
       ELSE OrLoop(r, startingIndex, i + 1, s)
  ELSE OrLoop(r, startingIndex, i + 1,
         [s EXCEPT !.sent = s.sent \cup {i - startingIndex},
            !.lastUnsentStartIndex = IF s.lastUnsentStartIndex = Undef THEN i
                                     ELSE s.lastUnsentStartIndex])

\* a handler that pushes what it receives without a look at sentIndices
OrReceive_NoDedupe(sent, startingIndex, r) == [sent |-> sent, out |-> <<r>>]

OrReceive(sent, startingIndex, r) ==
  LET loc == OrLoop(r, startingIndex, r.lowIndex,
              [sent |-> sent, lastUnsentStartIndex |-> Undef, out |-> <<>>])
  IN [ sent |-> loc.sent,
       out |-> IF loc.lastUnsentStartIndex # Undef
               THEN Append(loc.out, extend(r, loc.lastUnsentStartIndex, r.highIndex,
                                          NoPath, Undef, Undef))
               ELSE loc.out ]

\* -------------------------------------------------------------- field loader
\* the split loop of loadFields: fieldPageIndices is indexed by field
RECURSIVE LoadSplitLoop(_, _, _, _, _)
LoadSplitLoop(fields, r, fieldPageIndices, lowIndex, out) ==
  LET next(i) == FirstRow(fields[i].path, fieldPageIndices[i] + 1)
      cands == {i \in 1..Len(fields) : next(i) # Undef}
      \* the first field with the smallest next page start
      best == IF cands = {} THEN 0
              ELSE CHOOSE i \in cands :
                     \A j \in cands : next(i) < next(j) \/ (next(i) = next(j) /\ i <= j)
  IN IF best # 0 /\ next(best) <= r.highIndex
     THEN LoadSplitLoop(fields, r, [fieldPageIndices EXCEPT ![best] = @ + 1], next(best),
            Append(out, extend(r, lowIndex, next(best) - 1, NoPath, Undef, Undef)))
     ELSE Append(out, extend(r, lowIndex, r.highIndex, NoPath, Undef, Undef))

\* a first map that does not split the range
LoadSplit_Whole(fields, r) == <<r>>

LoadSplit(fields, r) ==
  LoadSplitLoop(fields, r,
    [i \in 1..Len(fields) |-> findRelevantPageIndex(fields[i].path, r.lowIndex)],
    r.lowIndex, <<>>)

\* the records that the second map of loadFields pushes for r
LoadRecords(fields, r) ==
  LET fieldPageIndices ==
        [j \in 1..Len(fields) |-> findRelevantPageIndex(fields[j].path, r.lowIndex)]
      \* row is not part of the record: it remembers the loop index i
      rec(i) ==
        [ row |-> i,
          value |-> [pth \in {fields[j].path : j \in 1..Len(fields)} |->
                      LET j == CHOOSE j \in 1..Len(fields) : fields[j].path = pth
                      IN ValueAt(PageValues(pth, fieldPageIndices[j]),
                                 i - FirstRow(pth, fieldPageIndices[j]))] ]
  IN [k \in 1..(r.highIndex - r.lowIndex + 1) |-> rec(r.lowIndex + k - 1)]

\* ------------------------------------------------------------ the pipeline
\* the stages that the PathStreamer constructor pipes together: per phase a
\* gate (the first map of FilterAndPhase.pipe) and the pipe of each item,
\* then the two maps of loadFields, then the consumer of the stream
Stage(kind, pred, items, phase) ==
  [ kind |-> kind, pred |-> pred, items |-> items, phase |-> phase ]

ItemStage(it, k) ==
  IF it.kind = "or" THEN Stage("or", it, it.items, k) ELSE Stage("leaf", it, <<>>, k)

PhaseStages(items, k) ==
  <<Stage("gate", Or(<<>>), items, k)>> \o [j \in 1..Len(items) |-> ItemStage(items[j], k)]

StagesOf(sp) ==
  Flatten([k \in 1..Len(sp.filter) |-> PhaseStages(sp.filter[k], k)])
  \o (IF sp.fields # <<>>
      THEN <<Stage("loadSplit", Or(<<>>), <<>>, 0), Stage("loadRecord", Or(<<>>), <<>>, 0)>>
      ELSE <<>>)
  \o <<Stage("sink", Or(<<>>), <<>>, 0)>>

N == Len(stages) - 1

\* the state of a stage: q the ranges not yet handled, mid the ranges
\* between the two maps of a value filter, fl the handlers waiting for a
\* promise, out the ranges pushed to the OR handler, insts the OR instances
EmptyStage == [ q |-> <<>>, mid |-> <<>>, fl |-> <<>>, out |-> <<>>, insts |-> <<>> ]
EmptyKid == [ q |-> <<>>, mid |-> <<>>, fl |-> <<>>, out |-> <<>> ]

\* the paths whose offset index / column index the prime of an item asks for
LeafOffsetNeeds(p) == {p.path}
LeafColumnNeeds(p) == IF p.index THEN {p.path} ELSE {}

ItemOffsetNeeds(it) ==
  IF it.kind = "or" THEN UNION {LeafOffsetNeeds(it.items[j]) : j \in 1..Len(it.items)}
  ELSE LeafOffsetNeeds(it)

ItemColumnNeeds(it) ==
  IF it.kind = "or" THEN UNION {LeafColumnNeeds(it.items[j]) : j \in 1..Len(it.items)}
  ELSE LeafColumnNeeds(it)

OffsetNeeds(items) == UNION {ItemOffsetNeeds(items[j]) : j \in 1..Len(items)}
ColumnNeeds(items) == UNION {ItemColumnNeeds(items[j]) : j \in 1..Len(items)}

\* a reader call: what is read, and the stage and the range it is read for
Read(type, path, page, stage, r) ==
  [ type |-> type, path |-> path, page |-> page, stage |-> stage, range |-> r ]

\* pushing ranges out of stage i hands them to stage i + 1
Push(s, i, ranges) == [s EXCEPT ![i + 1].q = @ \o ranges]

\* a place where the pipe of a leaf predicate runs: <<i, 0, 0>> is stage i
\* of the pipeline, <<i, n, c>> is child c of instance n of the OR stage i
Places ==
  {<<i, 0, 0>> : i \in {j \in 1..N : stages[j].kind = "leaf"}}
  \cup UNION {UNION {{<<i, n, c>> : c \in 1..Len(stages[i].items)} :
                     n \in 1..Len(st[i].insts)} :
              i \in {j \in 1..N : stages[j].kind = "or"}}

PredAt(pl) == IF pl[2] = 0 THEN stages[pl[1]].pred ELSE stages[pl[1]].items[pl[3]]
At(pl) == IF pl[2] = 0 THEN st[pl[1]] ELSE st[pl[1]].insts[pl[2]].kids[pl[3]]

Ev(pl, op, r, out) ==
  [ stage |-> pl[1], inst |-> pl[2], child |-> pl[3], op |-> op, in |-> r, out |-> out ]

\* the pipe at place pl moves to the queues newq, newmid, newfl and pushes emit
Update(pl, newq, newmid, newfl, emit) ==
  IF pl[2] = 0
  THEN /\ st' = Push([st EXCEPT ![pl[1]].q = newq, ![pl[1]].mid = newmid,
                                 ![pl[1]].fl = newfl], pl[1], emit)
       /\ arrived' = [arrived EXCEPT ![pl[1] + 1] = @ \o emit]
  ELSE /\ st' = [st EXCEPT ![pl[1]].insts[pl[2]].kids[pl[3]] =
                     [q |-> newq, mid |-> newmid, fl |-> newfl, out |-> @.out \o emit]]
       /\ UNCHANGED arrived

\* ---------------------------------------------------------------- actions
\* first map of FilterAndPhase.pipe: fastFilter, then prime every item
GateArrive(i) ==
  /\ UNCHANGED outside
  /\ ~failed /\ stages[i].kind = "gate" /\ st[i].q # <<>>
  /\ LET r == Head(st[i].q)
         items == stages[i].items
     IN IF ~AndFastFilter(items, r)
        THEN /\ st' = [st EXCEPT ![i].q = Tail(@)]
             /\ log' = log \cup {Ev(<<i, 0, 0>>, "gate", r, <<>>)}
             /\ UNCHANGED <<offsetIndexPromises, columnIndexPromises, reads>>
        ELSE /\ st' = [st EXCEPT ![i].q = Tail(@), ![i].fl = Append(@, r)]
             /\ offsetIndexPromises' = offsetIndexPromises \cup OffsetNeeds(items)
             /\ columnIndexPromises' = columnIndexPromises \cup ColumnNeeds(items)
             /\ reads' = reads
                  \cup {Read("offsetIndex", pth, Undef, i, r) :
                          pth \in OffsetNeeds(items) \ offsetIndexPromises}
                  \cup {Read("columnIndex", pth, Undef, i, r) :
                          pth \in ColumnNeeds(items) \ columnIndexPromises}
             /\ UNCHANGED log
  /\ UNCHANGED <<rowGroup, spec, stages, arrived, offsetIndex, columnIndex, records, failed>>

\* reader.readOffsetIndex resolves: primeOffsetIndex stores the index
ReadOffsetIndexDone(pth) ==
  /\ UNCHANGED outside
  /\ ~failed /\ pth \in offsetIndexPromises \ offsetIndex
  /\ offsetIndex' = offsetIndex \cup {pth}
  /\ UNCHANGED <<rowGroup, spec, stages, st, arrived, log, offsetIndexPromises,
                 columnIndexPromises, columnIndex, reads, records, failed>>

\* reader.readColumnIndex resolves: primeColumnIndex stores the index
ReadColumnIndexDone(pth) ==
  /\ UNCHANGED outside
  /\ ~failed /\ pth \in columnIndexPromises \ columnIndex
  /\ columnIndex' = columnIndex \cup {pth}
  /\ UNCHANGED <<rowGroup, spec, stages, st, arrived, log, offsetIndexPromises, offsetIndex,
                 columnIndexPromises, reads, records, failed>>

\* the prime of FilterAndPhase resolves with the range
GateRelease(i) ==
  /\ UNCHANGED outside
  /\ ~failed /\ stages[i].kind = "gate" /\ st[i].fl # <<>>
  /\ OffsetNeeds(stages[i].items) \subseteq offsetIndex
  /\ ColumnNeeds(stages[i].items) \subseteq columnIndex
  /\ LET r == Head(st[i].fl)
     IN /\ st' = Push([st EXCEPT ![i].fl = Tail(@)], i, <<r>>)
        /\ arrived' = [arrived EXCEPT ![i + 1] = Append(@, r)]
        /\ log' = log \cup {Ev(<<i, 0, 0>>, "gate", r, <<r>>)}
  /\ UNCHANGED <<rowGroup, spec, stages, offsetIndexPromises, offsetIndex, columnIndexPromises,
                 columnIndex, reads, records, failed>>

\* the map of FilterIndexPhase.pipe handles one range
LeafIndex(pl) ==
  /\ UNCHANGED outside
  /\ ~failed /\ PredAt(pl).index /\ At(pl).q # <<>>
  /\ LET r == Head(At(pl).q)
         res == IndexPipe(PredAt(pl), r)
     IN /\ Update(pl, Tail(At(pl).q), At(pl).mid, At(pl).fl, res.out)
        /\ log' = log \cup {Ev(pl, "index", r, res.out)}
        /\ failed' = res.threw
  /\ UNCHANGED <<rowGroup, spec, stages, offsetIndexPromises, offsetIndex, columnIndexPromises,
                 columnIndex, reads, records>>

\* the first map of FilterPhase.pipe handles one range
LeafSplit(pl) ==
  /\ UNCHANGED outside
  /\ ~failed /\ ~PredAt(pl).index /\ At(pl).q # <<>>
  /\ LET r == Head(At(pl).q)
         res == SplitPipe(PredAt(pl), r)
     IN /\ Update(pl, Tail(At(pl).q), At(pl).mid \o res.out, At(pl).fl, <<>>)
        /\ log' = log \cup {Ev(pl, "split", r, res.out)}
        /\ failed' = res.threw
  /\ UNCHANGED <<rowGroup, spec, stages, offsetIndexPromises, offsetIndex, columnIndexPromises,
                 columnIndex, reads, records>>

\* the second map of FilterPhase.pipe takes one range: fastPass pushes it,
\* otherwise the page is asked for
LeafScanStart(pl) ==
  /\ UNCHANGED outside
  /\ ~failed /\ ~PredAt(pl).index /\ At(pl).mid # <<>>
  /\ LET r == Head(At(pl).mid)
         p == PredAt(pl)
     IN IF fastPass(p, r)
        THEN /\ Update(pl, At(pl).q, Tail(At(pl).mid), At(pl).fl, <<r>>)
             /\ log' = log \cup {Ev(pl, "pass", r, <<r>>)}
             /\ UNCHANGED <<reads, failed>>
        ELSE IF ScanThrows(p, r)
        THEN /\ Update(pl, At(pl).q, Tail(At(pl).mid), At(pl).fl, <<>>)
             /\ failed' = TRUE
             /\ UNCHANGED <<reads, log>>
        ELSE /\ Update(pl, At(pl).q, Tail(At(pl).mid), Append(At(pl).fl, r), <<>>)
             /\ reads' = reads \cup {Read("page", p.path, ScanPage(p, r), pl[1], r)}
             /\ UNCHANGED <<log, failed>>
  /\ UNCHANGED <<rowGroup, spec, stages, offsetIndexPromises, offsetIndex, columnIndexPromises,
                 columnIndex, records>>

\* the page data of one waiting scan arrives: the runs are pushed
LeafScanDone(pl, k) ==
  /\ UNCHANGED outside
  /\ ~failed /\ ~PredAt(pl).index /\ k \in 1..Len(At(pl).fl)
  /\ LET r == At(pl).fl[k]
         out == ScanRuns(PredAt(pl), r)
     IN /\ Update(pl, At(pl).q, At(pl).mid, RemoveAt(At(pl).fl, k), out)
        /\ log' = log \cup {Ev(pl, "scan", r, out)}
  /\ UNCHANGED <<rowGroup, spec, stages, offsetIndexPromises, offsetIndex, columnIndexPromises,
                 columnIndex, reads, records, failed>>

\* the map of FilterOrPhase.pipe takes one range and starts every child on it
OrStart(i) ==
  /\ UNCHANGED outside
  /\ ~failed /\ stages[i].kind = "or" /\ st[i].q # <<>>
  /\ LET r == Head(st[i].q)
     IN st' = [st EXCEPT ![i].q = Tail(@),
                 ![i].insts = Append(@,
                    [ input |-> r, sent |-> {},
                      kids |-> [c \in 1..Len(stages[i].items) |->
                                 [EmptyKid EXCEPT !.q = <<r>>]] ])]
  /\ UNCHANGED <<rowGroup, spec, stages, arrived, log, offsetIndexPromises, offsetIndex,
                 columnIndexPromises, columnIndex, reads, records, failed>>

\* the inner map of FilterOrPhase.pipe receives a range of child c
OrEmit(i, n, c) ==
  /\ UNCHANGED outside
  /\ ~failed /\ stages[i].kind = "or" /\ n \in 1..Len(st[i].insts)
  /\ c \in 1..Len(stages[i].items) /\ st[i].insts[n].kids[c].out # <<>>
  /\ LET inst == st[i].insts[n]
         r == Head(inst.kids[c].out)
         res == OrReceive(inst.sent, inst.input.lowIndex, r)
     IN /\ st' = Push([st EXCEPT ![i].insts[n].sent = res.sent,
                                  ![i].insts[n].kids[c].out = Tail(@)], i, res.out)
        /\ arrived' = [arrived EXCEPT ![i + 1] = @ \o res.out]
        /\ log' = log \cup {Ev(<<i, n, c>>, "or", r, res.out)}
  /\ UNCHANGED <<rowGroup, spec, stages, offsetIndexPromises, offsetIndex, columnIndexPromises,
                 columnIndex, reads, records, failed>>

FieldPaths == {spec.fields[j].path : j \in 1..Len(spec.fields)}

\* the first map of loadFields takes one range and primes the offset indices
LoadArrive(i) ==
  /\ UNCHANGED outside
  /\ ~failed /\ stages[i].kind = "loadSplit" /\ st[i].q # <<>>
  /\ LET r == Head(st[i].q)
     IN /\ st' = [st EXCEPT ![i].q = Tail(@), ![i].fl = Append(@, r)]
        /\ offsetIndexPromises' = offsetIndexPromises \cup FieldPaths
        /\ reads' = reads \cup {Read("offsetIndex", pth, Undef, i, r) :
                                  pth \in FieldPaths \ offsetIndexPromises}
  /\ UNCHANGED <<rowGroup, spec, stages, arrived, log, offsetIndex, columnIndexPromises,
                 columnIndex, records, failed>>

\* the offset indices are there: the range is split along the page starts
LoadSplitRun(i) ==
  /\ UNCHANGED outside
  /\ ~failed /\ stages[i].kind = "loadSplit" /\ st[i].fl # <<>>
  /\ FieldPaths \subseteq offsetIndex
  /\ LET r == Head(st[i].fl)
         out == LoadSplit(spec.fields, r)
     IN /\ st' = Push([st EXCEPT ![i].fl = Tail(@)], i, out)
        /\ arrived' = [arrived EXCEPT ![i + 1] = @ \o out]
        /\ log' = log \cup {Ev(<<i, 0, 0>>, "loadSplit", r, out)}
  /\ UNCHANGED <<rowGroup, spec, stages, offsetIndexPromises, offsetIndex, columnIndexPromises,
                 columnIndex, reads, records, failed>>

\* the second map of loadFields takes one range and asks for a page per field
LoadRecordStart(i) ==
  /\ UNCHANGED outside
  /\ ~failed /\ stages[i].kind = "loadRecord" /\ st[i].q # <<>>
  /\ LET r == Head(st[i].q)
     IN /\ st' = [st EXCEPT ![i].q = Tail(@), ![i].fl = Append(@, r)]
        /\ reads' = reads \cup {Read("page", pth, findRelevantPageIndex(pth, r.lowIndex), i, r) :
                                  pth \in FieldPaths}
  /\ UNCHANGED <<rowGroup, spec, stages, arrived, log, offsetIndexPromises, offsetIndex,
                 columnIndexPromises, columnIndex, records, failed>>

\* the pages of one waiting range arrive: one record per row is pushed; the
\* read of a page that the column does not have may as well be rejected
LoadRecordDone(i, k) ==
  /\ UNCHANGED outside
  /\ ~failed /\ stages[i].kind = "loadRecord" /\ k \in 1..Len(st[i].fl)
  /\ LET r == st[i].fl[k]
         missing == \E pth \in FieldPaths :
                      findRelevantPageIndex(pth, r.lowIndex) >= NumPages(pth)
     IN \/ /\ st' = [st EXCEPT ![i].fl = RemoveAt(@, k)]
           /\ records' = records \o LoadRecords(spec.fields, r)
           /\ log' = log \cup {Ev(<<i, 0, 0>>, "loadRecord", r, <<>>)}
           /\ UNCHANGED failed
        \/ /\ missing
           /\ st' = [st EXCEPT ![i].fl = RemoveAt(@, k)]
           /\ failed' = TRUE
           /\ UNCHANGED <<records, log>>
  /\ UNCHANGED <<rowGroup, spec, stages, arrived, offsetIndexPromises, offsetIndex,
                 columnIndexPromises, columnIndex, reads>>

\* ------------------------------------------------------------------ inputs
\* the row groups read: every column a of at most MaxRows values with every
\* page layout; column b alternates 1 and 2 and has every page layout when
\* the query uses it; a row group without rows has no pages and no statistics
BValues(n) == [k \in 1..n |-> IF k % 2 = 1 THEN 1 ELSE 2]

RowGroupsOf(n, useB) ==
  UNION { { [ num_rows |-> n,
              columns |-> [pth \in Paths |->
                            IF pth = "a" THEN Column("a", Paginate(va, ca, 1), StatsOf(va))
                            ELSE Column("b", Paginate(BValues(n), cb, 1),
                                        StatsOf(BValues(n)))] ] :
              ca \in SUBSET (1..(n - 1)),
              cb \in (IF useB THEN SUBSET (1..(n - 1)) ELSE {{}}) } :
          va \in [1..n -> Vals] }

RowGroups(useB) == UNION {RowGroupsOf(n, useB) : n \in 0..MaxRows}

ValueLeaves(path, index) ==
  {Leaf("value", path, v, Undef, Undef, index) : v \in Vals}

RangeLeaves(path, index) ==
  {Leaf("range", path, Undef, b[1], b[2], index) :
     b \in {x \in (Vals \cup {Undef}) \X (Vals \cup {Undef}) :
             (x[1] # Undef \/ x[2] # Undef)
             /\ (x[1] = Undef \/ x[2] = Undef \/ x[1] <= x[2])}}

ALeaves == UNION {ValueLeaves("a", ix) \cup RangeLeaves("a", ix) : ix \in BOOLEAN}

\* the predicates that are combined in pairs: in one AND phase and in two
\* successive phases
First ==
  { Leaf("value", "a", 1, Undef, Undef, FALSE), Leaf("range", "a", Undef, Undef, 2, FALSE),
    Leaf("value", "a", 2, Undef, Undef, TRUE) }

Second ==
  { Leaf("value", "a", 2, Undef, Undef, TRUE), Leaf("range", "a", Undef, 1, 1, FALSE),
    Leaf("value", "b", 1, Undef, Undef, FALSE), Leaf("range", "a", Undef, 1, Undef, TRUE) }

\* the predicates that are combined in an OR
OrFirst ==
  { Leaf("value", "a", 1, Undef, Undef, FALSE), Leaf("range", "a", Undef, 2, Undef, TRUE) }

OrSecond ==
  { Leaf("value", "a", 2, Undef, Undef, TRUE), Leaf("value", "b", 1, Undef, Undef, FALSE) }

Filters ==
  {<<>>}
  \cup {<< <<p>> >> : p \in ALeaves}
  \cup {<< <<p1, p2>> >> : p1 \in First, p2 \in Second}
  \cup {<< <<Or(<<p1, p2>>)>> >> : p1 \in OrFirst, p2 \in OrSecond}
  \cup {<< <<p1>>, <<p2>> >> : p1 \in First, p2 \in Second}

Field(path) == [path |-> path, source |-> FALSE]

Specs ==
  {[filter |-> f, fields |-> <<>>] : f \in Filters}
  \cup {[filter |-> f, fields |-> fs] :
          f \in {<<>>} \cup {<< <<p>> >> : p \in ValueLeaves("a", FALSE)},
          fs \in {<<Field("a")>>, <<Field("a"), Field("b")>>}}

ItemPaths(it) ==
  IF it.kind = "or" THEN {it.items[j].path : j \in 1..Len(it.items)} ELSE {it.path}

UsesB(sp) ==
  \/ \E j \in 1..Len(sp.fields) : sp.fields[j].path = "b"
  \/ \E k \in 1..Len(sp.filter) : \E j \in 1..Len(sp.filter[k]) :
        "b" \in ItemPaths(sp.filter[k][j])

\* the PathStreamer constructor has written the root range of the row group
Init ==
  \E sp \in Specs : \E rg \in RowGroups(UsesB(sp)) :
    /\ OutsideIdle
    /\ rowGroup = rg
    /\ spec = sp
    /\ stages = StagesOf(sp)
    /\ st = [i \in 1..Len(StagesOf(sp)) |->
               IF i = 1 THEN [EmptyStage EXCEPT !.q = <<RowRange(rg)>>] ELSE EmptyStage]
    /\ arrived = [i \in 1..Len(StagesOf(sp)) |->
                    IF i = 1 THEN <<RowRange(rg)>> ELSE <<>>]
    /\ log = {}
    /\ offsetIndexPromises = {} /\ offsetIndex = {}
    /\ columnIndexPromises = {} /\ columnIndex = {}
    /\ reads = {}
    /\ records = <<>>
    /\ failed = FALSE

Next ==
  \/ \E i \in 1..N : GateArrive(i)
  \/ \E pth \in Paths : ReadOffsetIndexDone(pth)
  \/ \E pth \in Paths : ReadColumnIndexDone(pth)
  \/ \E i \in 1..N : GateRelease(i)
  \/ \E pl \in Places : LeafIndex(pl)
  \/ \E pl \in Places : LeafSplit(pl)
  \/ \E pl \in Places : LeafScanStart(pl)
  \/ \E pl \in Places : \E k \in 1..MaxRows + 1 : LeafScanDone(pl, k)
  \/ \E i \in 1..N : OrStart(i)
  \/ \E i \in 1..N : \E n \in 1..Len(st[i].insts) : \E c \in 1..Len(stages[i].items) :
        OrEmit(i, n, c)
  \/ \E i \in 1..N : LoadArrive(i)
  \/ \E i \in 1..N : LoadSplitRun(i)
  \/ \E i \in 1..N : LoadRecordStart(i)
  \/ \E i \in 1..N : \E k \in 1..Len(st[i].fl) : LoadRecordDone(i, k)

Spec == Init /\ [][Next]_vars

\* ------------------------------------------------------------ what is checked
Rows(r) == r.lowIndex..r.highIndex
RowsOf(ranges) == UNION {Rows(ranges[k]) : k \in 1..Len(ranges)}

\* a straight read of the column: the value of row (counted from 0)
ColumnValue(path, row) == Flatten(rowGroup.columns[path].pages)[row + 1]

\* the predicate as the query means it: value == v, or min <= value <= max
\* with an absent bound ignored
Satisfies(p, v) ==
  IF p.kind = "value" THEN v = p.value
  ELSE (p.min = Undef \/ p.min <= v) /\ (p.max = Undef \/ v <= p.max)

\* the rows of page k of a column
PageFirst(path, k) == rowGroup.columns[path].page_locations[k + 1]
PageLast(path, k) ==
  IF k + 1 < NumPages(path) THEN rowGroup.columns[path].page_locations[k + 2] - 1
  ELSE rowGroup.num_rows - 1

ValueLeafStages == {i \in 1..N : stages[i].kind = "leaf" /\ ~stages[i].pred.index}
IndexLeafStages == {i \in 1..N : stages[i].kind = "leaf" /\ stages[i].pred.index}

\* nothing is queued or waiting in stage i
Idle(i) ==
  /\ st[i].q = <<>> /\ st[i].mid = <<>> /\ st[i].fl = <<>> /\ st[i].out = <<>>
  /\ \A n \in 1..Len(st[i].insts) : \A c \in 1..Len(st[i].insts[n].kids) :
        st[i].insts[n].kids[c] = EmptyKid

\* the pipeline has run to its end
Done == ~failed /\ \A i \in 1..N : Idle(i)

\* C1: every row of every range that has left a value-filter stage satisfies
\* the predicate of that stage: value == v, or min <= value <= max
C1_ValueFilterSound ==
  \A i \in ValueLeafStages : \A j \in (i + 1)..(N + 1) :
    \A k \in 1..Len(arrived[j]) : \A row \in Rows(arrived[j][k]) :
      Satisfies(stages[i].pred, ColumnValue(stages[i].pred.path, row))

\* a value filter has read a page, dropped a row of it and emitted another
C1_Witness ==
  \E e \in log : /\ e.op = "scan" /\ e.inst = 0 /\ e.out # <<>>
                  /\ RowsOf(e.out) # Rows(e.in)
                  /\ \E k \in 1..Len(arrived[N + 1]) : arrived[N + 1][k] = e.out[1]

\* C7: a range that comes into a value-filter stage with fastPass true leaves
\* the stage as it came, and the stage reads no page for it
C7_FastPassUnchanged ==
  \A i \in ValueLeafStages : \A k \in 1..Len(arrived[i]) :
    LET r == arrived[i][k]
    IN fastPass(stages[i].pred, r) =>
         /\ \A rd \in reads :
              ~(rd.type = "page" /\ rd.stage = i
                 /\ r.lowIndex <= rd.range.lowIndex /\ rd.range.highIndex <= r.highIndex)
         /\ Idle(i) => \E m \in 1..Len(arrived[i + 1]) : arrived[i + 1][m] = r

\* a range of more than one page has passed a value filter by fastPass
C7_Witness ==
  \E i \in ValueLeafStages : \E k \in 1..Len(arrived[i]) :
    /\ fastPass(stages[i].pred, arrived[i][k])
    /\ findRelevantPageIndex(stages[i].pred.path, arrived[i][k].lowIndex)
         < findRelevantPageIndex(stages[i].pred.path, arrived[i][k].highIndex)
    /\ Idle(i)
    /\ \E m \in 1..Len(arrived[i + 1]) : arrived[i + 1][m] = arrived[i][k]

SetMin(S) == CHOOSE x \in S : \A y \in S : x <= y
SetMax(S) == CHOOSE x \in S : \A y \in S : x >= y

\* the maximal runs of consecutive numbers in S, as pairs <<first, last>>
Runs(S) ==
  {run \in S \X S : /\ run[1] <= run[2]
                     /\ \A x \in run[1]..run[2] : x \in S
                     /\ (run[1] - 1) \notin S /\ (run[2] + 1) \notin S}

Ascending(ranges) ==
  \A k \in 1..(Len(ranges) - 1) : ranges[k].highIndex < ranges[k + 1].lowIndex

EvPred(e) == PredAt(<<e.stage, e.inst, e.child>>)

\* the pages of the path of p that overlap r, and those that pass evaluate
OverlappingPages(p, r) ==
  {k \in 0..(NumPages(p.path) - 1) :
     PageFirst(p.path, k) <= r.highIndex /\ PageLast(p.path, k) >= r.lowIndex}

PassingPages(p, r) ==
  {k \in OverlappingPages(p, r) : IndexEvaluate(p, ColMin(p.path, k), ColMax(p.path, k))}

\* the range that the index filter owes for a run of passing pages
RunOfPages(p, r, run) ==
  [ lowIndex |-> SetMax({r.lowIndex, PageFirst(p.path, run[1])}),
    highIndex |-> SetMin({r.highIndex, PageLast(p.path, run[2])}),
    _minValues |-> [r._minValues EXCEPT
                      ![p.path] = SetMin({ColMin(p.path, k) : k \in run[1]..run[2]})],
    _maxValues |-> [r._maxValues EXCEPT
                      ![p.path] = SetMax({ColMax(p.path, k) : k \in run[1]..run[2]})] ]

\* C9: an index filter that accepts a range by fastFilter pushes, in
\* ascending order, exactly one range per maximal run of passing pages among
\* the pages that overlap the range, clamped to the range and to the pages,
\* with the smallest page min and the largest page max of the run as bounds
C9_IndexRuns ==
  \A e \in log :
    (e.op = "index" /\ IndexFastFilter(EvPred(e), e.in)) =>
      LET runs == Runs(PassingPages(EvPred(e), e.in))
      IN /\ Len(e.out) = Cardinality(runs)
         /\ {e.out[k] : k \in 1..Len(e.out)} = {RunOfPages(EvPred(e), e.in, run) : run \in runs}
         /\ Ascending(e.out)

\* an index filter has merged two passing pages into one range and has left
\* out a page that overlaps its input
C9_Witness ==
  \E e \in log :
    /\ e.op = "index" /\ IndexFastFilter(EvPred(e), e.in) /\ Len(e.out) = 1
    /\ \E run \in Runs(PassingPages(EvPred(e), e.in)) : run[1] < run[2]
    /\ PassingPages(EvPred(e), e.in) # OverlappingPages(EvPred(e), e.in)

\* the range lies in one page of the path
SinglePage(path, r) ==
  \E k \in 0..(NumPages(path) - 1) :
    PageFirst(path, k) <= r.lowIndex /\ r.highIndex <= PageLast(path, k)

PassingRows(p, r) == {row \in Rows(r) : Evaluate(p, ColumnValue(p.path, row))}

\* the range that the scan owes for a run of passing rows
RunOfRows(p, r, run) ==
  [ lowIndex |-> run[1], highIndex |-> run[2],
    _minValues |-> [r._minValues EXCEPT
                      ![p.path] = SetMin({ColumnValue(p.path, x) : x \in run[1]..run[2]})],
    _maxValues |-> [r._maxValues EXCEPT
                      ![p.path] = SetMax({ColumnValue(p.path, x) : x \in run[1]..run[2]})] ]

\* C10: the scan of a single-page range that fastPass does not let through
\* pushes exactly one range per maximal run of rows whose value passes
\* evaluate, with the smallest and the largest value of the run as bounds
C10_ScanRuns ==
  \A e \in log :
    (e.op = "scan" /\ SinglePage(EvPred(e).path, e.in) /\ ~fastPass(EvPred(e), e.in)) =>
      LET runs == Runs(PassingRows(EvPred(e), e.in))
      IN /\ Len(e.out) = Cardinality(runs)
         /\ {e.out[k] : k \in 1..Len(e.out)} = {RunOfRows(EvPred(e), e.in, run) : run \in runs}

\* a scan of one page has pushed two runs
C10_Witness ==
  \E e \in log :
    /\ e.op = "scan" /\ SinglePage(EvPred(e).path, e.in) /\ ~fastPass(EvPred(e), e.in)
    /\ Len(e.out) = 2

\* the query has one filter phase of one value predicate that is not index-only
SingleValueFilter ==
  /\ Len(spec.filter) = 1 /\ Len(spec.filter[1]) = 1
  /\ spec.filter[1][1].kind = "value" /\ ~spec.filter[1][1].index

\* C8: when the only filter is one value predicate that is not index-only, no
\* page whose column-index entry has min = max = the value is read by the
\* filter, and once the pipeline is done a pushed range covers the page
C8_MatchingPageNotRead ==
  SingleValueFilter =>
    LET p == spec.filter[1][1]
    IN \A k \in 0..(NumPages(p.path) - 1) :
         (ColMin(p.path, k) = p.value /\ ColMax(p.path, k) = p.value) =>
           /\ \A rd \in reads :
                ~(rd.type = "page" /\ rd.stage = 2 /\ rd.path = p.path /\ rd.page = k)
           /\ Done => \E m \in 1..Len(arrived[3]) :
                        /\ arrived[3][m].lowIndex <= PageFirst(p.path, k)
                        /\ PageLast(p.path, k) <= arrived[3][m].highIndex

\* the range has rows, and they are rows of the row group
WithinRowGroup(r) ==
  0 <= r.lowIndex /\ r.lowIndex <= r.highIndex /\ r.highIndex <= rowGroup.num_rows - 1

\* C4: the root range, every range that a stage has pushed and every range
\* that a child of an OR has pushed satisfy
\* 0 <= lowIndex <= highIndex <= num_rows - 1
C4_RangesWithinRowGroup ==
  /\ \A j \in 1..(N + 1) : \A k \in 1..Len(arrived[j]) : WithinRowGroup(arrived[j][k])
  /\ \A e \in log : \A k \in 1..Len(e.out) : WithinRowGroup(e.out[k])

OrStages == {i \in 1..N : stages[i].kind = "or"}

\* the rows that the branches of instance n of the OR stage i have emitted,
\* and the rows that the instance has pushed
ChildRows(i, n) ==
  UNION {RowsOf(e.out) : e \in {x \in log : /\ x.stage = i /\ x.inst = n
                                             /\ x.op \in {"index", "scan", "pass"}}}

OrRows(i, n) ==
  UNION {RowsOf(e.out) : e \in {x \in log : x.stage = i /\ x.inst = n /\ x.op = "or"}}

\* every range that the branches of the instance have emitted has been received
Received(i, n) ==
  \A c \in 1..Len(st[i].insts[n].kids) : st[i].insts[n].kids[c].out = <<>>

\* the ranges of the sequence are pairwise disjoint
Disjoint(ranges) ==
  \A k \in 1..Len(ranges) : \A m \in (k + 1)..Len(ranges) :
    Rows(ranges[k]) \cap Rows(ranges[m]) = {}

\* C2: an OR stage pushes only rows that one of its predicates has emitted,
\* has pushed every row of every range it has received from them, whatever
\* the order in which the ranges came, and pushes no row twice
C2_OrOnceIffSomeChild ==
  \A i \in OrStages :
    /\ \A n \in 1..Len(st[i].insts) :
         /\ OrRows(i, n) \subseteq ChildRows(i, n)
         /\ OrRows(i, n) \subseteq Rows(st[i].insts[n].input)
         /\ Received(i, n) => ChildRows(i, n) \subseteq OrRows(i, n)
    /\ Disjoint(arrived[i + 1])

\* both predicates of an OR have emitted a range with a row in common, and
\* the OR stage has pushed a part of a range it received
C2_Witness ==
  \E i \in OrStages :
    /\ Idle(i)
    /\ \E e1, e2 \in log :
         /\ e1.stage = i /\ e2.stage = i /\ e1.op = "or" /\ e2.op = "or"
         /\ e1.child # e2.child /\ Rows(e1.in) \cap Rows(e2.in) # {}
         /\ e2.out # <<>> /\ RowsOf(e2.out) # Rows(e2.in)

\* the rows that item it of an AND phase emits when it is given r by itself
RECURSIVE AloneRows(_, _)
AloneRows(it, r) ==
  IF it.kind = "or" THEN UNION {AloneRows(it.items[c], r) : c \in 1..Len(it.items)}
  ELSE IF it.index THEN RowsOf(IndexPipe(it, r).out)
  ELSE LET pieces == SplitPipe(it, r).out
       IN UNION {IF fastPass(it, pieces[k]) THEN Rows(pieces[k])
                 ELSE RowsOf(ScanRuns(it, pieces[k])) : k \in 1..Len(pieces)}

GateStages == {i \in 1..N : stages[i].kind = "gate"}

\* the rows of r that the AND phase of gate i has pushed
PhaseRows(i, r) == RowsOf(arrived[i + Len(stages[i].items) + 1]) \cap Rows(r)

\* the rows of r that every item of the AND phase of gate i emits by itself
EveryChildRows(i, r) ==
  {row \in Rows(r) : \A j \in 1..Len(stages[i].items) : row \in AloneRows(stages[i].items[j], r)}

NoIndexChild(i) ==
  \A j \in 1..Len(stages[i].items) :
    stages[i].items[j].kind # "or" /\ ~stages[i].items[j].index

LoadStage == CHOOSE i \in 1..N : stages[i].kind = "loadSplit"

RecordsOf(row) == {k \in 1..Len(records) : records[k].row = row}
RangesWith(row) == {k \in 1..Len(arrived[LoadStage]) : row \in Rows(arrived[LoadStage][k])}

\* C5: every record holds, for every requested path, the value that a
\* straight read of the column gives for its row; once the pipeline is done
\* there is one record per row of every range that came to the field loader,
\* so num_rows records when the filter is empty
C5_OneRecordPerRow ==
  spec.fields # <<>> =>
    /\ \A k \in 1..Len(records) : \A pth \in FieldPaths :
         records[k].value[pth] = ColumnValue(pth, records[k].row)
    /\ Done => /\ \A row \in 0..(rowGroup.num_rows - 1) :
                    Cardinality(RecordsOf(row)) = Cardinality(RangesWith(row))
               /\ spec.filter = <<>> => Len(records) = rowGroup.num_rows

\* every column is requested, the filter is empty, the pages of the two
\* columns start at different rows, and all the records are there
C5_Witness ==
  /\ Done /\ spec.filter = <<>> /\ FieldPaths = Paths
  /\ Len(records) = MaxRows
  /\ NumPages("a") > 1 /\ NumPages("b") > 1
  /\ rowGroup.columns["a"].page_locations # rowGroup.columns["b"].page_locations

\* the statistics of the row group leave no value for the predicate
RECURSIVE Disproved(_)
Disproved(it) ==
  IF it.kind = "or" THEN \A c \in 1..Len(it.items) : Disproved(it.items[c])
  ELSE LET stat == rowGroup.columns[it.path].statistics
       IN /\ stat.min_value # Undef /\ stat.max_value # Undef
          /\ IF it.kind = "value"
             THEN it.value < stat.min_value \/ it.value > stat.max_value
             ELSE \/ it.max # Undef /\ it.max < stat.min_value
                  \/ it.min # Undef /\ it.min > stat.max_value

NothingReadOrEmitted ==
  /\ reads = {} /\ records = <<>>
  /\ arrived[N + 1] = <<>>

RangeStages == {i \in 1..N : stages[i].kind # "loadRecord"}

NonDecreasing(ranges) ==
  \A k \in 1..(Len(ranges) - 1) : ranges[k].lowIndex <= ranges[k + 1].lowIndex

\* C13: the ranges that a stage has pushed, in the order in which it pushed
\* them, are non-decreasing in lowIndex and pairwise without a common row
C13_OrderedDisjoint ==
  \A i \in RangeStages : NonDecreasing(arrived[i + 1]) /\ Disjoint(arrived[i + 1])

\* ================================================================ memoize
\* The caches of lib/pathStreamer.js (memoize, lru, shortMap) and of
\* lib/pathReader.js (memoize with lru; memoize with the object cache).

\* maxSize of the QuickLRU (PARQUET_CACHE_SIZE) and the number of memoize calls
MaxSize == 1
MaxRequests == 3

Readers == {"r1", "r2"}

\* the position of a column in row_groups[0].columns
ColumnNo(path) == IF path = "a" THEN 0 ELSE 1

\* what a call site asks for; page is Undef where the call site passes null
Asked(reader, no, kind, path, page, source) ==
  [reader |-> reader, rowGroup |-> no, kind |-> kind, path |-> path, page |-> page,
   source |-> source]

\* the (reader id, row group, kind, path, page) of a request
TupleOf(t) == <<t.reader, t.rowGroup, t.kind, t.path, t.page>>

\* the requests of the call sites: one request and those that differ from it
\* in the reader, the row group, the kind, the path or the page
IndexRequests ==
  {Asked(rd, no, kind, pth, Undef, FALSE) :
     rd \in Readers, no \in 0..1, kind \in {"offsetIndex", "columnIndex"}, pth \in Paths}

PageRequests(sources) ==
  {Asked(rd, no, "page", pth, pg, src) :
     rd \in Readers, no \in 0..1, pth \in Paths, pg \in 0..1, src \in sources}

Near(t, u) ==
  Cardinality({k \in 1..5 : TupleOf(t)[k] # TupleOf(u)[k]}) <= 1

Requests(s) ==
  LET all == IF s = "pathStreamer" THEN IndexRequests \cup PageRequests({FALSE})
             ELSE IF s = "pathReader" THEN IndexRequests \cup PageRequests(BOOLEAN)
             ELSE IndexRequests
      base == IF s = "pathReaderItem"
              THEN {Asked("r1", 0, "offsetIndex", "a", Undef, FALSE)}
              ELSE {Asked("r1", 0, "offsetIndex", "a", Undef, FALSE),
                    Asked("r1", 0, "page", "a", 1, FALSE)}
  IN {t \in all : \E u \in base : Near(t, u)}

\* `${page || ''}`
PageOrEmpty(page) == IF page = Undef \/ page = 0 THEN "" ELSE ToString(page)

\* the key of memoize in pathStreamer.js
StreamerKey(t) ==
  t.reader \o "_rowgroup" \o ToString(t.rowGroup) \o "_" \o t.kind \o "_" \o t.path
           \o "_" \o PageOrEmpty(t.page)

\* the keys of the call sites of the first PathReader
ReaderKey(t) ==
  IF t.kind = "page"
  THEN t.reader \o "_page_rowgroup" \o ToString(t.rowGroup) \o "_" \o t.path \o "_page"
                \o ToString(t.page) \o "_" \o (IF t.source THEN "source" ELSE "no_source")
  ELSE t.reader \o "_" \o t.kind \o "_rowgroup" \o ToString(t.rowGroup) \o "_" \o t.path

\* the keys of the call sites of the second PathReader
ItemKey(t) == t.reader \o "_" \o t.kind \o ToString(ColumnNo(t.path))

\* skipCache of the call sites: pageData is called without cache, so !cache
\* is true; _loadRecords passes source
StreamerSkipCache(t) == t.kind = "page"
ReaderSkipCache(t) == t.kind = "page" /\ t.source

\* ---- Map and QuickLRU
Has(m, k) == k \in DOMAIN m
Put(m, k, v) == [x \in DOMAIN m \cup {k} |-> IF x = k THEN v ELSE m[x]]
Delete(m, k) == [x \in DOMAIN m \ {k} |-> m[x]]

QuickLRU == [cache |-> EmptyMap, oldCache |-> EmptyMap, size |-> 0]

\* QuickLRU._set: the entry goes into the young generation; when that holds
\* maxSize entries it becomes the old generation and the old one is dropped
LruSetNew(l, k, v) ==
  IF l.size + 1 >= MaxSize
  THEN [cache |-> EmptyMap, oldCache |-> Put(l.cache, k, v), size |-> 0]
  ELSE [l EXCEPT !.cache = Put(@, k, v), !.size = @ + 1]

LruSet(l, k, v) ==
  IF Has(l.cache, k) THEN [l EXCEPT !.cache = Put(@, k, v)] ELSE LruSetNew(l, k, v)

\* QuickLRU.get: the value (Undef for undefined) and the QuickLRU afterwards
LruGet(l, k) ==
  IF Has(l.cache, k) THEN [value |-> l.cache[k], lru |-> l]
  ELSE IF Has(l.oldCache, k)
       THEN [value |-> l.oldCache[k],
             lru |-> LruSetNew([l EXCEPT !.oldCache = Delete(@, k)], k, l.oldCache[k])]
       ELSE [value |-> Undef, lru |-> l]

\* ---- the memoize calls
\* the futures fetching key k that have not completed
InFlight(k) == {f \in 1..Len(calls) : calls[f].key = k /\ f \notin done}

\* fn() is called for request t: the future of a new reader call
Fetch(t, k, skip) == Append(calls, [req |-> t, key |-> k, skip |-> skip])

Returns(t, k, f, miss) ==
  Append(returned, [req |-> t, key |-> k, future |-> f, miss |-> miss,
                    inFlight |-> InFlight(k)])

\* memoize of pathStreamer.js
StreamerMemoize(t) ==
  /\ MemoFrame
  /\ site = "pathStreamer" /\ Len(returned) < MaxRequests
  /\ LET key == StreamerKey(t)
         skipCache == StreamerSkipCache(t)
         got == IF skipCache
                THEN [value |-> IF Has(shortMap, key) THEN shortMap[key] ELSE Undef,
                      lru |-> lru]
                ELSE LruGet(lru, key)
         miss == got.value = Undef
         result == IF miss THEN Len(calls) + 1 ELSE got.value
     IN /\ calls' = IF miss THEN Fetch(t, key, skipCache) ELSE calls
        /\ shortMap' = IF miss /\ skipCache THEN Put(shortMap, key, result) ELSE shortMap
        /\ lru' = IF miss /\ ~skipCache THEN LruSet(got.lru, key, result) ELSE got.lru
        /\ returned' = Returns(t, key, result, miss)
  /\ UNCHANGED <<rejected, site, cache, done>>

\* memoize of the first PathReader
ReaderMemoize(t) ==
  /\ MemoFrame
  /\ site = "pathReader" /\ Len(returned) < MaxRequests
  /\ LET key == ReaderKey(t)
         skipCache == ReaderSkipCache(t)
         got == IF skipCache THEN [value |-> Undef, lru |-> lru] ELSE LruGet(lru, key)
         miss == got.value = Undef
         result == IF miss THEN Len(calls) + 1 ELSE got.value
     IN /\ calls' = IF miss THEN Fetch(t, key, skipCache) ELSE calls
        /\ lru' = IF miss /\ ~skipCache THEN LruSet(got.lru, key, result) ELSE got.lru
        /\ returned' = Returns(t, key, result, miss)
  /\ UNCHANGED <<rejected, site, shortMap, cache, done>>

\* memoize of the second PathReader
ItemMemoize(t) ==
  /\ MemoFrame
  /\ site = "pathReaderItem" /\ Len(returned) < MaxRequests
  /\ LET key == ItemKey(t)
         miss == ~Has(cache, key)
         result == IF miss THEN Len(calls) + 1 ELSE cache[key]
     IN /\ calls' = IF miss THEN Fetch(t, key, FALSE) ELSE calls
        /\ cache' = IF miss THEN Put(cache, key, result) ELSE cache
        /\ returned' = Returns(t, key, result, miss)
  /\ UNCHANGED <<rejected, site, lru, shortMap, done>>

\* the fetch of future f completes; the then of pathStreamer.js takes the
\* key out of shortMap
FetchDone(f) ==
  /\ MemoFrame
  /\ f \in 1..Len(calls) /\ f \notin done
  /\ done' = done \cup {f}
  /\ shortMap' = IF site = "pathStreamer" /\ calls[f].skip
                 THEN Delete(shortMap, calls[f].key) ELSE shortMap
  /\ UNCHANGED <<rejected, site, lru, cache, calls, returned>>

MemoInit ==
  /\ MemoAlone
  /\ site \in {"pathStreamer", "pathReader", "pathReaderItem"}
  /\ lru = QuickLRU /\ shortMap = EmptyMap /\ cache = EmptyMap
  /\ calls = <<>> /\ done = {} /\ rejected = {} /\ returned = <<>>

MemoNext ==
  \/ \E t \in Requests(site) : StreamerMemoize(t)
  \/ \E t \in Requests(site) : ReaderMemoize(t)
  \/ \E t \in Requests(site) : ItemMemoize(t)
  \/ \E f \in 1..Len(calls) : FetchDone(f)

MemoSpec == MemoInit /\ [][MemoNext]_allVars

\* C11: a memoize call that comes while a fetch for its key is in flight
\* returns the future of that fetch and makes no reader call
C11_InFlightShared ==
  \A n \in 1..Len(returned) :
    returned[n].inFlight # {}
      => ~returned[n].miss /\ returned[n].future \in returned[n].inFlight

\* C12: the future that a memoize call returns fetches what the call asked
\* for: same reader, row group, kind, path and page
C12_NoForeignEntry ==
  \A n \in 1..Len(returned) :
    TupleOf(calls[returned[n].future].req) = TupleOf(returned[n].req)

\* ============================================================ search.sort
\* search(paths, options).sort(field) of lib/pathStreamer.js, for one path
\* {path: field, min, max}. A record is modelled by its value of the field.

MaxSortVal == 3
MaxPages == 3
MaxPageRows == 2

SortVals == 1..MaxSortVal

\* the values of the field in one page, and the pages of one row group
PageContents == UNION {[1..n -> SortVals] : n \in 1..MaxPageRows}
PageSeqs(most) == UNION {[1..n -> PageContents] : n \in 1..most}

\* the row groups of a file: at most MaxPages pages in one or two row groups
Files ==
  {<<>>} \cup {<<rg>> : rg \in PageSeqs(MaxPages)}
         \cup {<<rg1, rg2>> : rg1 \in PageSeqs(1), rg2 \in PageSeqs(MaxPages - 1)}
         \cup {<<rg1, rg2>> : rg1 \in PageSeqs(MaxPages - 1), rg2 \in PageSeqs(1)}

\* the entries of paths for the field: min and max are optional
SortPaths ==
  {[min |-> mn, max |-> mx] : mn \in {Undef, 1, 2}, mx \in {Undef, MaxSortVal}}

\* the row groups that search keeps: the statistics do not rule out the path
KeepsRowGroup(p, rg) ==
  LET all == Flatten(rg)
  IN /\ (p.min = Undef \/ SeqMax(all) >= p.min)
     /\ (p.max = Undef \/ SeqMin(all) <= p.max)

\* pages: is the column index read for the path?
ReadsColumnIndex(p) == p.min # Undef \/ p.max # Undef

\* pages: the page is excluded by its column-index entry
Excluded(p, values) ==
  /\ ReadsColumnIndex(p)
  /\ \/ (p.min # Undef /\ p.min > SeqMax(values))
     \/ (p.max # Undef /\ p.max < SeqMin(values))

\* pages: what the pages stream pushes for row group no, with the min_value
\* and max_value that sort's init copies from the column index (Undef
\* where cols[columnNumber] is undefined)
RECURSIVE PagesFrom(_, _, _, _)
PagesFrom(p, rg, no, k) ==
  IF k > Len(rg) THEN <<>>
  ELSE (IF Excluded(p, rg[k]) THEN <<>>
        ELSE << [rowGroupNo |-> no, pageNo |-> k - 1, values |-> rg[k],
                 min_value |-> SeqMin(rg[k]), max_value |-> SeqMax(rg[k])] >>)
       \o PagesFrom(p, rg, no, k + 1)

RECURSIVE SearchPages(_, _, _)
SearchPages(p, f, no) ==
  IF no >= Len(f) THEN <<>>
  ELSE (IF KeepsRowGroup(p, f[no + 1]) THEN PagesFrom(p, f[no + 1], no, 1) ELSE <<>>)
       \o SearchPages(p, f, no + 1)

\* results: the records of a page that pass the path
RECURSIVE Results(_, _)
Results(p, values) ==
  IF values = <<>> THEN <<>>
  ELSE (IF /\ (p.min = Undef \/ values[1] >= p.min)
           /\ (p.max = Undef \/ values[1] <= p.max)
        THEN <<values[1]>> ELSE <<>>) \o Results(p, Tail(values))

\* buffer.sort((a, b) => a[field] - b[field]): the records in non-decreasing
\* order of the field; place k holds the value v with fewer than k records
\* below v and at least k records up to v
SortByField(s) ==
  [k \in 1..Len(s) |->
     CHOOSE v \in SortVals : /\ Cardinality({i \in 1..Len(s) : s[i] < v}) < k
                             /\ k <= Cardinality({i \in 1..Len(s) : s[i] <= v})]

\* next: the lowest max_value of the pages left (Infinity without pages)
Infinity == MaxSortVal + 1

RECURSIVE LowestMax(_)
LowestMax(ps) ==
  IF ps = <<>> THEN Infinity
  ELSE LET m == LowestMax(Tail(ps)) IN IF ps[1].max_value < m THEN ps[1].max_value ELSE m

\* a reduce that keeps a page whose min_value is lowestMax
RECURSIVE Remaining_Strict(_, _)
Remaining_Strict(ps, lowestMax) ==
  IF ps = <<>> THEN <<>>
  ELSE (IF ps[1].min_value < lowestMax THEN <<>> ELSE <<ps[1]>>)
       \o Remaining_Strict(Tail(ps), lowestMax)

\* next: the pages read in this round and the pages left for a later round
RECURSIVE Candidates(_, _)
Candidates(ps, lowestMax) ==
  IF ps = <<>> THEN <<>>
  ELSE (IF ps[1].min_value <= lowestMax THEN <<ps[1]>> ELSE <<>>)
       \o Candidates(Tail(ps), lowestMax)

RECURSIVE Remaining(_, _)
Remaining(ps, lowestMax) ==
  IF ps = <<>> THEN <<>>
  ELSE (IF ps[1].min_value <= lowestMax THEN <<>> ELSE <<ps[1]>>)
       \o Remaining(Tail(ps), lowestMax)

RECURSIVE CandidateData(_, _)
CandidateData(p, cs) ==
  IF cs = <<>> THEN <<>> ELSE Results(p, cs[1].values) \o CandidateData(p, Tail(cs))

\* next: the records of the sorted buffer that are pushed, and those kept
RECURSIVE Pushed_All(_, _)
Pushed_All(s, lowestMax) == s

RECURSIVE Pushed(_, _)
Pushed(s, lowestMax) ==
  IF s = <<>> THEN <<>>
  ELSE (IF s[1] <= lowestMax THEN <<s[1]>> ELSE <<>>) \o Pushed(Tail(s), lowestMax)

RECURSIVE Kept(_, _)
Kept(s, lowestMax) ==
  IF s = <<>> THEN <<>>
  ELSE (IF s[1] <= lowestMax THEN <<>> ELSE <<s[1]>>) \o Kept(Tail(s), lowestMax)

\* init: pages = await res.pages().promise(), then min_value and max_value
\* are read from page.cols[columnNumber], which is undefined when the path
\* has neither min nor max: the TypeError goes to out.emit('error')
SortInitRun ==
  /\ SortFrame
  /\ sortAt = "init"
  /\ LET found == SearchPages(sortPath, sortFile, 0)
     IN IF found # <<>> /\ ~ReadsColumnIndex(sortPath)
        THEN /\ sortAt' = "error"
             /\ sortPages' = found
        ELSE /\ sortAt' = "next"
             /\ sortPages' = found
  /\ UNCHANGED <<sortFile, sortPath, sortBuffer, sortOut>>

\* next: one round
SortNextRun ==
  /\ SortFrame
  /\ sortAt = "next"
  /\ LET lowestMax == LowestMax(sortPages)
         sorted == SortByField(sortBuffer \o CandidateData(sortPath, Candidates(sortPages, lowestMax)))
     IN /\ sortPages' = Remaining(sortPages, lowestMax)
        /\ sortOut' = sortOut \o Pushed(sorted, lowestMax)
        /\ sortBuffer' = Kept(sorted, lowestMax)
        /\ sortAt' = IF Remaining(sortPages, lowestMax) # <<>> THEN "next" ELSE "ended"
  /\ UNCHANGED <<sortFile, sortPath>>

SortInit ==
  /\ SortAlone
  /\ sortFile \in Files /\ sortPath \in SortPaths
  /\ sortPages = <<>> /\ sortBuffer = <<>> /\ sortOut = <<>> /\ sortAt = "init"

SortNext == SortInitRun \/ SortNextRun

SortSpec == SortInit /\ [][SortNext]_allVars

\* C14: the records pushed by sort(field) are in non-decreasing order of the
\* field, whatever the min and max values of the pages are
C14_SortedOutput ==
  \A k \in 1..(Len(sortOut) - 1) : sortOut[k] <= sortOut[k + 1]

\* the stream has ended after pushing three different values, read from two
\* row groups with a page each whose value ranges overlap
C14_Witness ==
  /\ sortAt = "ended" /\ Len(sortFile) = 2 /\ Len(sortOut) >= 3
  /\ \E k \in 1..Len(sortOut) : sortOut[1] < sortOut[k] /\ sortOut[k] < sortOut[Len(sortOut)]
  /\ \E i \in 1..Len(sortFile[1]) : \E j \in 1..Len(sortFile[2]) :
       /\ SeqMin(sortFile[2][j]) < SeqMin(sortFile[1][i])
       /\ SeqMin(sortFile[1][i]) <= SeqMax(sortFile[2][j])
       /\ SeqMax(sortFile[2][j]) < SeqMax(sortFile[1][i])

\* ========================================================== ParquetCursor
MaxRowGroups == 3
MaxGroupRows == 2

\* what next() returns: a row, null, or undefined
Row(no, k) == [is |-> "row", rowGroup |-> no, index |-> k]
Null == [is |-> "null", rowGroup |-> 0, index |-> 0]
Undefined == [is |-> "undefined", rowGroup |-> 0, index |-> 0]

\* readRowGroup and materializeRecords: the rows of row group no (from 0)
\* with num rows
MaterializeRecords(no, num) == [k \in 1..num |-> Row(no, k - 1)]

\* the files: up to MaxRowGroups row groups of 0..MaxGroupRows rows
CursorFiles ==
  UNION {{[no \in 1..n |-> MaterializeRecords(no - 1, nums[no])] :
            nums \in [1..n -> 0..MaxGroupRows]} : n \in 0..MaxRowGroups}

\* Array.shift: undefined for an empty array
Shift(rows) == IF rows = <<>> THEN Undefined ELSE Head(rows)
AfterShift(rows) == IF rows = <<>> THEN <<>> ELSE Tail(rows)

\* the calls of next() that the model follows: one more than there are rows
\* and row groups
CursorCalls == Len(Flatten(cursorFile)) + Len(cursorFile) + 1

\* ParquetCursor.next
CursorNextCall ==
  /\ CursorFrame
  /\ Len(nextResults) < CursorCalls
  /\ IF cursorRowGroup = <<>>
     THEN IF rowGroupIndex >= Len(cursorFile)
          THEN /\ nextResults' = Append(nextResults, Null)
               /\ UNCHANGED <<cursorRowGroup, rowGroupIndex>>
          ELSE LET rows == cursorFile[rowGroupIndex + 1]
               IN /\ nextResults' = Append(nextResults, Shift(rows))
                  /\ cursorRowGroup' = AfterShift(rows)
                  /\ rowGroupIndex' = rowGroupIndex + 1
     ELSE /\ nextResults' = Append(nextResults, Shift(cursorRowGroup))
          /\ cursorRowGroup' = AfterShift(cursorRowGroup)
          /\ UNCHANGED rowGroupIndex
  /\ UNCHANGED cursorFile

\* the constructor
CursorInit ==
  /\ CursorAlone
  /\ cursorFile \in CursorFiles
  /\ cursorRowGroup = <<>> /\ rowGroupIndex = 0 /\ nextResults = <<>>

CursorNext == CursorNextCall

CursorSpec == CursorInit /\ [][CursorNext]_allVars

\* C15: the k-th call of next() returns the k-th row of the file, in the
\* order of the row groups, and every call after the last row returns null
C15_NextInFileOrder ==
  LET rows == Flatten(cursorFile)
  IN \A k \in 1..Len(nextResults) :
       nextResults[k] = IF k <= Len(rows) THEN rows[k] ELSE Null

\* ================================================= PathStreamer constructor
\* The constructor of PathStreamer with a filter: parseFilterPhase and the
\* pipe() of the phases, for well-formed and malformed entries of spec.filter.

\* a list that the spec does not have
NoList == << [absent |-> TRUE] >>

\* an object of a filter spec; a key that is absent is Undef (NoList for or
\* and and); other says that the object has a key that parseFilterPhase
\* does not know
Object(value, min, max, index, or, and, other) ==
  [isArray |-> FALSE, value |-> value, min |-> min, max |-> max, index |-> index,
   or |-> or, and |-> and, other |-> other, elements |-> <<>>]

Array(elements) ==
  [isArray |-> TRUE, value |-> Undef, min |-> Undef, max |-> Undef, index |-> FALSE,
   or |-> NoList, and |-> NoList, other |-> FALSE, elements |-> elements]

\* the predicates inside a list
ItemSpecs ==
  { Object(1, Undef, Undef, FALSE, NoList, NoList, FALSE),
    Object(Undef, 1, 2, FALSE, NoList, NoList, FALSE),
    Object(1, Undef, Undef, TRUE, NoList, NoList, FALSE),
    Object(1, 1, Undef, FALSE, NoList, NoList, FALSE),
    Object(Undef, Undef, Undef, FALSE, NoList, NoList, TRUE) }

Lists == UNION {[1..n -> ItemSpecs] : n \in 0..2}

\* the entries of spec.filter
FilterSpecs ==
  {Object(v, mn, mx, ix, NoList, NoList, o) :
     v \in {Undef, 1}, mn \in {Undef, 1}, mx \in {Undef, 2}, ix \in BOOLEAN, o \in BOOLEAN}
  \cup {Object(Undef, Undef, Undef, FALSE, l, NoList, FALSE) : l \in Lists}
  \cup {Object(Undef, Undef, Undef, FALSE, NoList, l, FALSE) : l \in Lists}
  \cup {Array(l) : l \in Lists}

\* what parseFilterPhase returns
Phase(class, items) == [class |-> class, items |-> items]
NoPhase == Phase("undefined", <<>>)

\* parseFilterPhase for the objects inside a list
parseItem(s) ==
  IF s.index
  THEN IF s.value # Undef THEN Phase("FilterValueIndexPhase", <<>>)
       ELSE IF s.min # Undef \/ s.max # Undef THEN Phase("FilterRangeIndexPhase", <<>>)
       ELSE NoPhase
  ELSE IF s.value # Undef THEN Phase("FilterValuePhase", <<>>)
  ELSE IF s.min # Undef \/ s.max # Undef THEN Phase("FilterRangePhase", <<>>)
  ELSE NoPhase

\* FilterMultiItemPhase constructor: items.map(item => parseFilterPhase(item))
parseItems(l) == [k \in 1..Len(l) |-> parseItem(l[k])]

parseFilterPhase(s) ==
  IF s.index
  THEN IF s.value # Undef THEN Phase("FilterValueIndexPhase", <<>>)
       ELSE IF s.min # Undef \/ s.max # Undef THEN Phase("FilterRangeIndexPhase", <<>>)
       ELSE NoPhase
  ELSE IF s.value # Undef THEN Phase("FilterValuePhase", <<>>)
  ELSE IF s.min # Undef \/ s.max # Undef THEN Phase("FilterRangePhase", <<>>)
  ELSE IF s.or # NoList THEN Phase("FilterOrPhase", parseItems(s.or))
  ELSE IF s.isArray THEN Phase("FilterAndPhase", parseItems(s.elements))
  ELSE IF s.and # NoList THEN Phase("FilterAndPhase", parseItems(s.and))
  ELSE NoPhase

\* pipe() throws a TypeError: it is called on undefined, or it is the pipe
\* of a FilterAndPhase, which calls the pipe of every item
RECURSIVE PipeThrows(_)
PipeThrows(ph) ==
  \/ ph = NoPhase
  \/ /\ ph.class = "FilterAndPhase"
     /\ \E k \in 1..Len(ph.items) : PipeThrows(ph.items[k])

\* the phase that the constructor pipes for the entry: the entry itself when
\* it is an array, otherwise the entry as the only item of an AND
TopPhase(s) ==
  IF s.isArray THEN parseFilterPhase(s)
  ELSE Phase("FilterAndPhase", <<parseFilterPhase(s)>>)

\* the handler of a FilterOrPhase calls the pipe of every item when a
\* RowRange comes
RECURSIVE HandlerThrows(_)
HandlerThrows(ph) ==
  \/ /\ ph.class = "FilterOrPhase"
     /\ \E k \in 1..Len(ph.items) : PipeThrows(ph.items[k])
  \/ /\ ph.class = "FilterAndPhase"
     /\ \E k \in 1..Len(ph.items) : HandlerThrows(ph.items[k])

\* new PathStreamer(spec, readers)
Construct ==
  /\ CtorFrame
  /\ construction = "pending"
  /\ construction' = IF PipeThrows(TopPhase(filterSpec)) THEN "thrown" ELSE "constructed"
  /\ UNCHANGED <<filterSpec, handled, streamError>>

\* the first stage handles the root RowRange
HandleRoot ==
  /\ CtorFrame
  /\ construction = "constructed" /\ handled = 0 /\ ~streamError
  /\ IF HandlerThrows(TopPhase(filterSpec))
     THEN streamError' = TRUE /\ UNCHANGED handled
     ELSE handled' = 1 /\ UNCHANGED streamError
  /\ UNCHANGED <<filterSpec, construction>>

CtorInit ==
  /\ CtorAlone
  /\ filterSpec \in FilterSpecs
  /\ construction = "pending" /\ handled = 0 /\ streamError = FALSE

CtorNext == Construct \/ HandleRoot

CtorSpec == CtorInit /\ [][CtorNext]_allVars

\* a predicate with both value and min, a predicate with an unknown key, an
\* empty and/or list
MalformedPredicate(s) == (s.value # Undef /\ s.min # Undef) \/ s.other

Malformed(s) ==
  \/ MalformedPredicate(s)
  \/ s.or = <<>> \/ s.and = <<>>
  \/ \E l \in {s.or, s.and, s.elements} :
       l # NoList /\ \E k \in 1..Len(l) : MalformedPredicate(l[k])

\* C16: the constructor throws for a malformed filter, so that no RowRange
\* is handled by a stage
C16_MalformedThrows ==
  (Malformed(filterSpec) /\ construction # "pending")
    => (construction = "thrown" /\ handled = 0 /\ ~streamError)

\* ============================================================ search.first
\* search(paths, options).first(): the row groups go through the pages stage
\* and the pages through the results stage, each with options.concurrency
\* handlers at a time; the first record settles the promise and destroys
\* the results stream.

MaxFirstRowGroups == 3
MaxFirstPages == 2
MaxConcurrency == 2

\* a page of a row group, and the record that a page gives (a page gives
\* one record or none)
PageOf(no, pageNo) == [rowGroupNo |-> no, pageNo |-> pageNo]
RecordOf(pg) == [rowGroupNo |-> pg.rowGroupNo, pageNo |-> pg.pageNo]

\* for every page of a row group the number of records that pass the paths
FirstRowGroups == UNION {[1..n -> 0..1] : n \in 0..MaxFirstPages}
FirstFiles == UNION {[1..n -> FirstRowGroups] : n \in 0..MaxFirstRowGroups}

Pending == [is |-> "pending", value |-> <<>>]
Resolved(d) == [is |-> "resolved", value |-> d]
Rejected(e) == [is |-> "rejected", value |-> e]

\* a reader call and whether first() had resolved when it was made
FetchOf(kind, no, pageNo) ==
  [kind |-> kind, rowGroupNo |-> no, pageNo |-> pageNo,
   afterResolved |-> outcome.is = "resolved"]

\* pages: what the handler pushes for row group no
PagesPushed(no) == [k \in 1..Len(firstFile[no + 1]) |-> PageOf(no, k - 1)]

\* streamz(concurrency, pages) takes the next row group that streamRowGroups
\* has written; the handler calls readOffsetIndex and readColumnIndex at once
PagesStart ==
  /\ FirstFrame
  /\ nextRowGroup < Len(firstFile) /\ Cardinality(pagesRunning) < concurrency
  /\ pagesRunning' = pagesRunning \cup {nextRowGroup}
  /\ nextRowGroup' = nextRowGroup + 1
  /\ fetches' = fetches \cup {FetchOf("offsetIndex", nextRowGroup, Undef),
                              FetchOf("columnIndex", nextRowGroup, Undef)}
  /\ UNCHANGED <<firstFile, concurrency, resultsQueue, resultsRunning, emitted,
                 destroyed, outcome>>

\* the reads of a pages handler have resolved: it pushes the pages, which
\* reach the results stream unless that stream is destroyed
PagesDone(no) ==
  /\ FirstFrame
  /\ no \in pagesRunning
  /\ pagesRunning' = pagesRunning \ {no}
  /\ resultsQueue' = IF destroyed THEN resultsQueue ELSE resultsQueue \o PagesPushed(no)
  /\ UNCHANGED <<firstFile, concurrency, nextRowGroup, resultsRunning, emitted,
                 destroyed, outcome, fetches>>

\* streamz(concurrency, results) takes the next page; the handler calls
\* readPage at once
ResultsStart ==
  /\ FirstFrame
  /\ ~destroyed /\ resultsQueue # <<>> /\ Cardinality(resultsRunning) < concurrency
  /\ resultsRunning' = resultsRunning \cup {Head(resultsQueue)}
  /\ resultsQueue' = Tail(resultsQueue)
  /\ fetches' = fetches \cup
                  {FetchOf("page", Head(resultsQueue).rowGroupNo, Head(resultsQueue).pageNo)}
  /\ UNCHANGED <<firstFile, concurrency, nextRowGroup, pagesRunning, emitted, destroyed,
                 outcome>>

\* readPage has resolved: the handler pushes the record of the page; the
\* stream piped behind results resolves the promise and destroys results
ResultsDone(pg) ==
  /\ FirstFrame
  /\ pg \in resultsRunning
  /\ resultsRunning' = resultsRunning \ {pg}
  /\ IF ~destroyed /\ firstFile[pg.rowGroupNo + 1][pg.pageNo + 1] = 1
     THEN /\ emitted' = Append(emitted, RecordOf(pg))
          /\ outcome' = IF outcome.is = "pending" THEN Resolved(RecordOf(pg)) ELSE outcome
          /\ destroyed' = TRUE
     ELSE UNCHANGED <<emitted, outcome, destroyed>>
  /\ UNCHANGED <<firstFile, concurrency, nextRowGroup, pagesRunning, resultsQueue, fetches>>

\* every row group and page has been handled and the stream behind results
\* finishes: reject('not_found')
Finish ==
  /\ FirstFrame
  /\ ~destroyed /\ outcome.is = "pending"
  /\ nextRowGroup = Len(firstFile) /\ pagesRunning = {}
  /\ resultsQueue = <<>> /\ resultsRunning = {}
  /\ outcome' = Rejected("not_found")
  /\ UNCHANGED <<firstFile, concurrency, nextRowGroup, pagesRunning, resultsQueue,
                 resultsRunning, emitted, destroyed, fetches>>

FirstInit ==
  /\ FirstAlone
  /\ firstFile \in FirstFiles /\ concurrency \in 1..MaxConcurrency
  /\ nextRowGroup = 0 /\ pagesRunning = {} /\ resultsQueue = <<>> /\ resultsRunning = {}
  /\ emitted = <<>> /\ destroyed = FALSE /\ outcome = Pending /\ fetches = {}

FirstNext ==
  \/ PagesStart
  \/ \E no \in pagesRunning : PagesDone(no)
  \/ ResultsStart
  \/ \E pg \in resultsRunning : ResultsDone(pg)
  \/ Finish

FirstSpec == FirstInit /\ [][FirstNext]_allVars

\* first() resolves with the first record that results() emits and destroys
\* the stream
FirstResolvesWithFirstRecord ==
  outcome.is = "resolved" => (emitted # <<>> /\ outcome.value = emitted[1] /\ destroyed)

\* first() rejects with 'not_found' when results() has finished without a
\* record, and only then
NotFoundIffNoRecord ==
  /\ outcome.is = "rejected" => (outcome.value = "not_found" /\ emitted = <<>>)
  /\ emitted # <<>> => outcome.is = "resolved"

\* no reader call is made after first() has resolved
NoFetchAfterResolved == \A f \in fetches : ~f.afterResolved

\* C18: first() resolves with the first record of results() and destroys
\* the stream, no reader call starts once it has resolved, and it rejects
\* with 'not_found' when results() finishes without a record
C18_FirstStopsFetching ==
  FirstResolvesWithFirstRecord /\ NotFoundIffNoRecord /\ NoFetchAfterResolved

\* ===================================================== fields with source
\* PathStreamer.loadFields for a spec whose fields name a column of JSON
\* documents with source: true. Column "b" holds JSON texts; a text is
\* written as its number in Documents, and JSON.parse gives the document.

Documents ==
  << [key \in {} |-> 0],
     [key \in {"k"} |-> 11],
     [key \in {"k", "b"} |-> IF key = "k" THEN 12 ELSE 13] >>

Texts == 1..Len(Documents)

JSONparse(text) == Documents[text]

SourceField(path) == [path |-> path, source |-> TRUE]

SourceSpecs ==
  {[filter |-> <<>>, fields |-> fs] :
     fs \in {<<SourceField("b")>>, <<Field("a"), SourceField("b")>>, <<Field("b")>>}}

\* row groups of n rows: column a as BValues, column b a JSON text per row,
\* every page layout of both columns
SourceRowGroupsOf(n) ==
  UNION { { [ num_rows |-> n,
              columns |-> [pth \in Paths |->
                            IF pth = "a" THEN Column("a", Paginate(BValues(n), ca, 1),
                                                     StatsOf(BValues(n)))
                            ELSE Column("b", Paginate(vb, cb, 1), StatsOf(vb))] ] :
              ca \in SUBSET (1..(n - 1)), cb \in SUBSET (1..(n - 1)) } :
          vb \in [1..n -> Texts] }

SourceRowGroups == UNION {SourceRowGroupsOf(n) : n \in 1..MaxRows}

SourceInit ==
  \E sp \in SourceSpecs : \E rg \in SourceRowGroups :
    /\ OutsideIdle
    /\ rowGroup = rg
    /\ spec = sp
    /\ stages = StagesOf(sp)
    /\ st = [i \in 1..Len(StagesOf(sp)) |->
               IF i = 1 THEN [EmptyStage EXCEPT !.q = <<RowRange(rg)>>] ELSE EmptyStage]
    /\ arrived = [i \in 1..Len(StagesOf(sp)) |->
                    IF i = 1 THEN <<RowRange(rg)>> ELSE <<>>]
    /\ log = {}
    /\ offsetIndexPromises = {} /\ offsetIndex = {}
    /\ columnIndexPromises = {} /\ columnIndex = {}
    /\ reads = {}
    /\ records = <<>>
    /\ failed = FALSE

\* the handlers of loadFields and the reads they wait for
SourceNext ==
  \/ \E i \in 1..N : LoadArrive(i)
  \/ \E pth \in Paths : ReadOffsetIndexDone(pth)
  \/ \E i \in 1..N : LoadSplitRun(i)
  \/ \E i \in 1..N : LoadRecordStart(i)
  \/ \E i \in 1..N : \E k \in 1..Len(st[i].fl) : LoadRecordDone(i, k)

SourceSpec == SourceInit /\ [][SourceNext]_allVars

SourcePaths == {spec.fields[j].path : j \in {j \in 1..Len(spec.fields) : spec.fields[j].source}}

\* the record holds every key of the document with the document's value
HoldsDocument(value, doc) ==
  \A key \in DOMAIN doc : key \in DOMAIN value /\ value[key] = doc[key]

\* the record holds the text of the column under the column's path
HoldsRawValue(value, path, text) == path \in DOMAIN value /\ value[path] = text

SourceLeftRaw ==
  \A k \in 1..Len(records) : \A pth \in SourcePaths :
    /\ HoldsRawValue(records[k].value, pth, ColumnValue(pth, records[k].row))
    /\ DOMAIN records[k].value = FieldPaths

\* ====================================================== RowRange.extend
\* RowRange.extend on JavaScript objects: a derived range is an empty
\* object whose prototype is its receiver, and its _minValues and _maxValues
\* are empty objects whose prototypes are the receiver's.

MaxRanges == 4
\* pathLowValue and pathHighValue of an extend call
BoundPairs == {<<Undef, Undef>>, <<1, Undef>>, <<1, 2>>, <<2, 2>>}

\* meta_data.statistics of every column
Statistics == [min_value |-> 0, max_value |-> 3]

Obj(proto, own) == [proto |-> proto, own |-> own]

\* obj[key]: the own property, or else the property of the prototype
RECURSIVE Get(_, _, _)
Get(h, obj, key) ==
  IF key \in DOMAIN h[obj].own THEN h[obj].own[key]
  ELSE IF h[obj].proto = 0 THEN Undef
  ELSE Get(h, h[obj].proto, key)

\* obj[key] = value: an own property of obj
Set(h, obj, key, value) == [h EXCEPT ![obj].own = Put(h[obj].own, key, value)]

\* Object.setPrototypeOf({}, proto) as the next object of the heap
SetPrototypeOf(h, proto) == Append(h, Obj(proto, EmptyMap))

\* an extend that leaves result._minValues and result._maxValues as they are
\* found through the prototype
HeapExtend_Shared(h, this, lowIndex, highIndex, path, pathLowValue, pathHighValue) ==
  LET result == Len(h) + 1
      h1 == SetPrototypeOf(h, this)
      h4 == Set(Set(h1, result, "lowIndex", lowIndex), result, "highIndex", highIndex)
  IN IF path = NoPath THEN h4
     ELSE Set(Set(h4, Get(h4, result, "_minValues"), path, pathLowValue),
              Get(h4, result, "_maxValues"), path, pathHighValue)

\* this.extend(lowIndex, highIndex, path, pathLowValue, pathHighValue): the
\* heap after the call; the result is the object Len(h) + 1
HeapExtend(h, this, lowIndex, highIndex, path, pathLowValue, pathHighValue) ==
  LET result == Len(h) + 1
      h1 == SetPrototypeOf(h, this)
      h2 == Set(SetPrototypeOf(h1, Get(h1, result, "_minValues")),
                result, "_minValues", Len(h1) + 1)
      h3 == Set(SetPrototypeOf(h2, Get(h2, result, "_maxValues")),
                result, "_maxValues", Len(h2) + 1)
      h4 == Set(Set(h3, result, "lowIndex", lowIndex), result, "highIndex", highIndex)
  IN IF path = NoPath THEN h4
     ELSE Set(Set(h4, Get(h4, result, "_minValues"), path, pathLowValue),
              Get(h4, result, "_maxValues"), path, pathHighValue)

\* new RowRange(reader, rowGroup): the range, its _minValues, its _maxValues
HeapRowRange(numRows) ==
  << Obj(0, [key \in {"lowIndex", "highIndex", "_minValues", "_maxValues"} |->
               CASE key = "lowIndex" -> 0
                 [] key = "highIndex" -> numRows - 1
                 [] key = "_minValues" -> 2
                 [] OTHER -> 3]),
     Obj(0, EmptyMap), Obj(0, EmptyMap) >>

HeapMinValue(h, obj, path) ==
  LET v == Get(h, Get(h, obj, "_minValues"), path)
  IN IF v = Undef THEN Statistics.min_value ELSE v

HeapMaxValue(h, obj, path) ==
  LET v == Get(h, Get(h, obj, "_maxValues"), path)
  IN IF v = Undef THEN Statistics.max_value ELSE v

\* what can be read from a range
Observe(h, obj) ==
  [ lowIndex |-> Get(h, obj, "lowIndex"), highIndex |-> Get(h, obj, "highIndex"),
    low |-> [p \in Paths |-> Get(h, Get(h, obj, "_minValues"), p)],
    high |-> [p \in Paths |-> Get(h, Get(h, obj, "_maxValues"), p)],
    minValue |-> [p \in Paths |-> HeapMinValue(h, obj, p)],
    maxValue |-> [p \in Paths |-> HeapMaxValue(h, obj, p)] ]

\* the call that made a range, and what could be read from it and from its
\* receiver when it returned
Made(obj, parent, lowIndex, highIndex, path, pathLowValue, pathHighValue, h) ==
  [ obj |-> obj, parent |-> parent, lowIndex |-> lowIndex, highIndex |-> highIndex,
    path |-> path, pathLowValue |-> pathLowValue, pathHighValue |-> pathHighValue,
    seen |-> Observe(h, obj),
    parentSeen |-> IF parent = 0 THEN Observe(h, obj) ELSE Observe(h, made[parent].obj) ]

\* any range made so far is extended
ExtendCall(k, lowIndex, highIndex, path, pathLowValue, pathHighValue) ==
  /\ HeapFrame
  /\ Len(made) < MaxRanges
  /\ heap' = HeapExtend(heap, made[k].obj, lowIndex, highIndex, path,
                        pathLowValue, pathHighValue)
  /\ made' = Append(made, Made(Len(heap) + 1, k, lowIndex, highIndex, path,
                               pathLowValue, pathHighValue, heap'))

HeapInit ==
  /\ HeapAlone
  /\ \E numRows \in 1..2 :
       /\ heap = HeapRowRange(numRows)
       /\ made = << [ obj |-> 1, parent |-> 0, lowIndex |-> 0, highIndex |-> numRows - 1,
                      path |-> NoPath, pathLowValue |-> Undef, pathHighValue |-> Undef,
                      seen |-> Observe(HeapRowRange(numRows), 1),
                      parentSeen |-> Observe(HeapRowRange(numRows), 1) ] >>

HeapNext ==
  \E k \in 1..Len(made) : \E lowIndex \in 0..1 : \E path \in Paths \cup {NoPath} :
    \E bounds \in BoundPairs :
      /\ path = NoPath => bounds = <<Undef, Undef>>
      /\ ExtendCall(k, lowIndex, 1, path, bounds[1], bounds[2])

HeapSpec == HeapInit /\ [][HeapNext]_allVars

\* the receiver of every extend call, like every other range, reads as it
\* did when it was made
ReceiverUnchanged == \A k \in 1..Len(made) : Observe(heap, made[k].obj) = made[k].seen

\* a derived range has the limits of the call, the bounds of the call for
\* the path of the call, and for every other path what its receiver had
DerivedAsCalled ==
  \A k \in 2..Len(made) :
    LET m == made[k]
    IN /\ m.seen.lowIndex = m.lowIndex /\ m.seen.highIndex = m.highIndex
       /\ \A p \in Paths :
            IF p = m.path
            THEN m.seen.low[p] = m.pathLowValue /\ m.seen.high[p] = m.pathHighValue
            ELSE m.seen.low[p] = m.parentSeen.low[p] /\ m.seen.high[p] = m.parentSeen.high[p]

\* C20: extend never changes its receiver, whose lowIndex, highIndex and
\* bounds stay as they were after any sequence of extend calls; the bounds
\* of the call are seen in the derived range and, through it, in its
\* descendants, never in the parent or a sibling; the bounds of the other
\* paths are the parent's
C20_ExtendFrame == ReceiverUnchanged /\ DerivedAsCalled

\* a range has two children with different bounds for path a, which it has
\* not itself, and a grandchild made with a bound for path b that reads the
\* bounds of its parent for path a
C20_Witness ==
  \E c1, c2, g \in 2..Len(made) :
    /\ made[c1].parent = made[c2].parent /\ c1 # c2 /\ made[g].parent = c1
    /\ made[c1].path = "a" /\ made[c2].path = "a" /\ made[g].path = "b"
    /\ made[c1].pathLowValue = 1 /\ made[c2].pathLowValue = 2 /\ made[g].pathLowValue = 1
    /\ Observe(heap, made[made[c1].parent].obj).low["a"] = Undef
    /\ Observe(heap, made[c1].obj).low["a"] = 1
    /\ Observe(heap, made[c2].obj).low["a"] = 2
    /\ Observe(heap, made[g].obj).low["a"] = 1
    /\ Observe(heap, made[g].obj).low["b"] = 1
    /\ Observe(heap, made[c1].obj).low["b"] = Undef

\* ------------------------------------------------ the split of loadFields
NonEmpty(r) == r.lowIndex <= r.highIndex

\* the split of a range with rows covers the range, in ascending order, and
\* every sub-range with rows lies in one page of every requested path
SplitCovers ==
  \A e \in log :
    (e.op = "loadSplit" /\ NonEmpty(e.in)) =>
      /\ Ascending(e.out) /\ RowsOf(e.out) = Rows(e.in)
      /\ \A k \in 1..Len(e.out) : \A pth \in FieldPaths :
           NonEmpty(e.out[k]) => SinglePage(pth, e.out[k])

\* C21: the split of loadFields of a range with rows pushes sub-ranges that
\* have rows, ascend without overlap, cover the range exactly, and each lie
\* in one page of every requested path
C21_SplitPartition ==
  /\ SplitCovers
  /\ \A e \in log :
       (e.op = "loadSplit" /\ NonEmpty(e.in)) => \A k \in 1..Len(e.out) : NonEmpty(e.out[k])

\* ================================================ findRelevantPageIndex
\* RowRange.findRelevantPageIndex on offset indices of up to MaxFindRows
\* pages

MaxFindRows == 6

\* a row group of n rows whose column a has its pages cut after the rows of
\* cuts: first_row_index starts at 0 and increases strictly
FindRowGroups ==
  UNION { { [ num_rows |-> n,
              columns |-> [pth \in Paths |->
                            Column(pth, Paginate([k \in 1..n |-> 1], cuts, 1),
                                   StatsOf([k \in 1..n |-> 1]))] ] :
              cuts \in SUBSET (1..(n - 1)) } : n \in 1..MaxFindRows }

FindInit ==
  /\ MemoIdle /\ SortIdle /\ CursorIdle /\ CtorIdle /\ FirstIdle /\ HeapIdle
  /\ ReaderIdle /\ LoopIdle
  /\ rowGroup \in FindRowGroups
  /\ spec = <<>> /\ stages = <<>> /\ st = <<>> /\ arrived = <<>>
  /\ log = {} /\ offsetIndexPromises = {} /\ offsetIndex = {"a"}
  /\ columnIndexPromises = {} /\ columnIndex = {} /\ reads = {} /\ records = <<>>
  /\ failed = FALSE
  /\ findCalls = {}

\* rowRange.findRelevantPageIndex('a', rowIndex)
FindCall(rowIndex) ==
  /\ FindFrame
  /\ findCalls' = findCalls \cup
                    {[rowIndex |-> rowIndex, page |-> findRelevantPageIndex("a", rowIndex)]}

FindNext == \E rowIndex \in 0..(rowGroup.num_rows - 1) : FindCall(rowIndex)

FindSpec == FindInit /\ [][FindNext]_allVars

\* page p of column a holds the row: it starts at or before the row, and it
\* is the last page or the next page starts after the row
HoldsRow(p, rowIndex) ==
  /\ 0 <= p /\ p < NumPages("a")
  /\ PageFirst("a", p) <= rowIndex
  /\ (p = NumPages("a") - 1 \/ rowIndex < PageFirst("a", p + 1))

\* C22: for every rowIndex of the row group findRelevantPageIndex returns
\* the one page that holds the row, as a scan of the pages from the first
\* would, whatever the number of pages
C22_FindsThePage ==
  \A c \in findCalls :
    /\ HoldsRow(c.page, c.rowIndex)
    /\ \A p \in 0..(NumPages("a") - 1) : HoldsRow(p, c.rowIndex) => p = c.page

\* with five pages or more, calls have returned the first page, the last
\* page for a row after its first, and a page between them for its first row
C22_Witness ==
  /\ NumPages("a") >= 5
  /\ \E c1, c2, c3 \in findCalls :
       /\ c1.page = 0 /\ c2.page = NumPages("a") - 1
       /\ 0 < c3.page /\ c3.page < NumPages("a") - 1
       /\ c3.rowIndex = PageFirst("a", c3.page)
       /\ c2.rowIndex > PageFirst("a", c2.page)

\* ------------------------------------------- fastPass of a range predicate
\* the range as handled by the second map of a range filter: passed by
\* fastPass or scanned
RangePassEvents ==
  {e \in log : e.op \in {"pass", "scan"} /\ EvPred(e).kind = "range"}

\* both bounds of the range are known and lie within the predicate's bounds,
\* a bound of the predicate included
WithinInclusive(p, r) ==
  /\ minValue(r, p.path) # Undef /\ maxValue(r, p.path) # Undef
  /\ (p.min = Undef \/ p.min <= minValue(r, p.path))
  /\ (p.max = Undef \/ maxValue(r, p.path) <= p.max)

\* a range that a range filter passes by fastPass lies within the bounds
RangePassSound ==
  \A e \in RangePassEvents : e.op = "pass" => WithinInclusive(EvPred(e), e.in)

\* C23: a range filter passes a range by fastPass, without a page read,
\* exactly when both bounds of the range are known and lie within the bounds
\* of the predicate, equality included
C23_RangePassInclusive ==
  \A e \in RangePassEvents : e.op = "pass" <=> WithinInclusive(EvPred(e), e.in)

\* ------------------------------------------------ bounds of one-page ranges
\* the range has, for the path, the column-index entry of the page that
\* holds its first row as tightened bounds
HasPageBounds(r, pth) ==
  /\ r._minValues[pth] = ColMin(pth, findRelevantPageIndex(pth, r.lowIndex))
  /\ r._maxValues[pth] = ColMax(pth, findRelevantPageIndex(pth, r.lowIndex))

\* the ranges that the page split and the scan of a value filter, the index
\* filter, an OR and the split of loadFields have pushed
Produced ==
  UNION {{e.out[k] : k \in 1..Len(e.out)} :
           e \in {x \in log : x.op \in {"split", "scan", "index", "or", "loadSplit"}}}

\* a range that an index filter pushes from one page has the entry of that
\* page as bounds for the path of the filter
IndexOnePageBounds ==
  \A e \in log : e.op = "index" =>
    \A k \in 1..Len(e.out) :
      (NonEmpty(e.out[k]) /\ SinglePage(EvPred(e).path, e.out[k]))
        => HasPageBounds(e.out[k], EvPred(e).path)

\* C24: every range that a stage has produced and that lies in one page of
\* a path whose offset index has been fetched has tightened bounds for that
\* path, equal to the column-index entry of the page
C24_OnePageBounds ==
  \A r \in Produced : \A pth \in offsetIndex :
    (NonEmpty(r) /\ SinglePage(pth, r)) => HasPageBounds(r, pth)

\* ------------------------------------------------ tightened bounds are true
\* every range pushed so far, by a stage or by a child of an OR
Pushed_Ranges ==
  UNION {{arrived[j][k] : k \in 1..Len(arrived[j])} : j \in 1..(N + 1)}
  \cup UNION {{e.out[k] : k \in 1..Len(e.out)} : e \in log}

\* the tightened bounds that the range has for the path hold for the value
\* of the path in every row of the range
BoundsHold(r, pth) ==
  \A row \in Rows(r) :
    /\ r._minValues[pth] # Undef => r._minValues[pth] <= ColumnValue(pth, row)
    /\ r._maxValues[pth] # Undef => ColumnValue(pth, row) <= r._maxValues[pth]

\* C25: for every range that a stage has pushed and every path for which it
\* has tightened bounds, the value of the path in every row of the range
\* lies within the bounds, so the lower bound is not above the upper one;
\* also after an index filter has put page bounds in the place of the bounds
\* of a scan
C25_BoundsHold ==
  \A r \in Pushed_Ranges : \A pth \in Paths :
    /\ BoundsHold(r, pth)
    /\ (NonEmpty(r) /\ r._minValues[pth] # Undef /\ r._maxValues[pth] # Undef)
         => r._minValues[pth] <= r._maxValues[pth]

\* an index filter has taken a range with the bounds of a scan and pushed it
\* with the wider bounds of its page
C25_Witness ==
  \E e \in log :
    /\ e.op = "index" /\ e.out # <<>>
    /\ e.in._minValues[EvPred(e).path] # Undef
    /\ e.in._minValues[EvPred(e).path] = e.in._maxValues[EvPred(e).path]
    /\ e.out[1]._minValues[EvPred(e).path] < e.out[1]._maxValues[EvPred(e).path]
    /\ NonEmpty(e.out[1])

\* ==================================================== memoize: shortMap
\* The page futures of pathStreamer.js: pageData calls memoize with
\* skipCache, and the read of a page resolves or rejects.

\* the page reads that pageData asks for
ShortRequests == {t \in Requests("pathStreamer") : StreamerSkipCache(t)}

\* the fetch of future f rejects: the function given to then is not called
FetchRejected(f) ==
  /\ MemoFrame
  /\ f \in 1..Len(calls) /\ f \notin done
  /\ done' = done \cup {f}
  /\ rejected' = rejected \cup {f}
  /\ UNCHANGED <<site, lru, shortMap, cache, calls, returned>>

ShortInit ==
  /\ MemoAlone
  /\ site = "pathStreamer"
  /\ lru = QuickLRU /\ shortMap = EmptyMap /\ cache = EmptyMap
  /\ calls = <<>> /\ done = {} /\ rejected = {} /\ returned = <<>>

ShortNext ==
  \/ \E t \in ShortRequests : StreamerMemoize(t)
  \/ \E f \in 1..Len(calls) : FetchDone(f)
  \/ \E f \in 1..Len(calls) : FetchRejected(f)

ShortSpec == ShortInit /\ [][ShortNext]_allVars

\* shortMap holds no future whose fetch has resolved, and a request that
\* comes when no fetch of its key is in flight or has rejected makes a new
\* reader call
ResolvedLeaveShortMap ==
  /\ \A k \in DOMAIN shortMap : shortMap[k] \notin (done \ rejected)
  /\ \A n \in 1..Len(returned) :
       (returned[n].inFlight = {} /\ ~returned[n].miss) => returned[n].future \in rejected

\* C26: shortMap holds only futures whose fetch is still in flight, whether
\* the fetches before resolved or rejected, and a request that comes when no
\* fetch of its key is in flight makes a new reader call
C26_ShortMapInFlightOnly ==
  /\ \A k \in DOMAIN shortMap : shortMap[k] \notin done
  /\ \A n \in 1..Len(returned) : returned[n].inFlight = {} => returned[n].miss

\* ============================================ PathReader.findRelevantPages
\* findRelevantPages of the first PathReader of lib/pathReader.js for paths
\* on column a, whose column index is readerColInfo, and on a source column s.

MaxReaderPages == 2

\* an entry of paths; absent keys are Undef, an absent list is <<>>
ReaderItem(kind, path, value, min, max, source, items) ==
  [ kind |-> kind, path |-> path, value |-> value, min |-> min, max |-> max,
    source |-> source, items |-> items ]

ValueItems == {ReaderItem("value", "a", v, Undef, Undef, FALSE, <<>>) : v \in Vals}
RangeItems ==
  { ReaderItem("range", "a", Undef, 2, Undef, FALSE, <<>>),
    ReaderItem("range", "a", Undef, Undef, 1, FALSE, <<>>) }
PathItems == {ReaderItem("path", "a", Undef, Undef, Undef, FALSE, <<>>)}

\* {path: 's', value: 1, source: true}
SourceValueItem == ReaderItem("value", "s", 1, Undef, Undef, TRUE, <<>>)

ReaderLeaves == ValueItems \cup RangeItems \cup PathItems \cup {SourceValueItem}

OrItems == {ReaderItem("or", "", Undef, Undef, Undef, FALSE, <<x, y>>) : x, y \in ReaderLeaves}

ReaderQueries ==
  {<<x>> : x \in ReaderLeaves \cup OrItems} \cup {<<x, y>> : x, y \in ReaderLeaves}

\* column indices of at most MaxReaderPages pages with min_value <= max_value
ColInfos ==
  UNION {[1..n -> {[min_value |-> mn, max_value |-> mx] : mn \in Vals, mx \in Vals}]
           : n \in 0..MaxReaderPages}

\* what preloadRelevantPageInfo of an item resolves with: a function of the
\* page index, or the boolean true
Callback(kind, item, items) == [kind |-> kind, item |-> item, items |-> items]

RECURSIVE preloadRelevantPageInfo(_)
preloadRelevantPageInfo(item) ==
  IF item.kind \in {"or", "and"}
  THEN Callback(item.kind, item,
                [i \in 1..Len(item.items) |-> preloadRelevantPageInfo(item.items[i])])
  ELSE IF item.kind = "value" /\ item.source THEN Callback("true", item, <<>>)
  ELSE Callback("function", item, <<>>)

\* the function that a leaf item resolves with, called with a page index
LeafRelevant(item, pageIndex) ==
  LET colInfo == readerColInfo[pageIndex + 1]
  IN IF item.kind = "value"
     THEN colInfo.min_value <= item.value /\ colInfo.max_value >= item.value
     ELSE IF item.kind = "range"
     THEN ~( (item.min # Undef /\ item.min > colInfo.max_value)
             \/ (item.max # Undef /\ item.max < colInfo.min_value) )
     ELSE TRUE

\* cb(pageIndex): "true", "false", or "TypeError" when what is called is
\* not a function
RECURSIVE Call(_, _)
RECURSIVE AndLoop(_, _, _)
RECURSIVE OrLoop_Reader(_, _, _)

AndLoop(items, i, pageIndex) ==
  IF i > Len(items) THEN "true"
  ELSE LET r == Call(items[i], pageIndex)
       IN IF r = "true" THEN AndLoop(items, i + 1, pageIndex) ELSE r

OrLoop_Reader(items, i, pageIndex) ==
  IF i > Len(items) THEN "false"
  ELSE LET r == Call(items[i], pageIndex)
       IN IF r = "false" THEN OrLoop_Reader(items, i + 1, pageIndex) ELSE r

Call(cb, pageIndex) ==
  IF cb.kind = "true" THEN "TypeError"
  ELSE IF cb.kind = "and" THEN AndLoop(cb.items, 1, pageIndex)
  ELSE IF cb.kind = "or" THEN OrLoop_Reader(cb.items, 1, pageIndex)
  ELSE IF LeafRelevant(cb.item, pageIndex) THEN "true" ELSE "false"

\* the loop of findRelevantPages over the pages from i on
RECURSIVE RelevantLoop(_, _, _, _)
RelevantLoop(cb, i, pageCount, results) ==
  IF i >= pageCount THEN [rejected |-> FALSE, results |-> results]
  ELSE LET r == Call(cb, i)
       IN IF r = "TypeError" THEN [rejected |-> TRUE, results |-> <<>>]
          ELSE RelevantLoop(cb, i + 1, pageCount,
                            IF r = "true" THEN Append(results, i) ELSE results)

\* PathReader is an AndReader of the items of paths
findRelevantPages(paths) ==
  RelevantLoop(Callback("and", ReaderItem("and", "", Undef, Undef, Undef, FALSE, paths),
                        [i \in 1..Len(paths) |-> preloadRelevantPageInfo(paths[i])]),
               0, Len(readerColInfo), <<>>)

ReaderInit ==
  /\ ReaderAlone
  /\ readerPaths \in ReaderQueries /\ readerColInfo \in ColInfos
  /\ relevantPages = [is |-> "pending"]

\* new PathReader(reader, paths).findRelevantPages(rowGroup) settles
FindRelevantPagesCall ==
  /\ ReaderFrame
  /\ relevantPages.is = "pending"
  /\ relevantPages' = [is |-> "settled", with |-> findRelevantPages(readerPaths)]
  /\ UNCHANGED <<readerPaths, readerColInfo>>

ReaderNext == FindRelevantPagesCall

ReaderSpec == ReaderInit /\ [][ReaderNext]_allVars

\* the items of a list without the value predicates on a source column
RECURSIVE OtherItems(_)
OtherItems(items) ==
  IF items = <<>> THEN <<>>
  ELSE IF Head(items).kind = "value" /\ Head(items).source THEN OtherItems(Tail(items))
  ELSE <<Head(items)>> \o OtherItems(Tail(items))

HasSourceValue(items) == \E i \in 1..Len(items) : items[i].kind = "value" /\ items[i].source

\* C27: when a value predicate on a source column is among the paths,
\* findRelevantPages settles without error and gives exactly the pages that
\* the other predicates accept
C27_SourceNotPruned ==
  (relevantPages.is = "settled" /\ HasSourceValue(readerPaths)) =>
    /\ ~relevantPages.with.rejected
    /\ relevantPages.with.results = findRelevantPages(OtherItems(readerPaths)).results

\* what holds in its place: the call rejects with a TypeError as soon as a
\* page gets as far as the source predicate, and gives no page otherwise
SourceValueThrows ==
  (relevantPages.is = "settled" /\ HasSourceValue(readerPaths)) =>
    /\ relevantPages.with.results = <<>>
    /\ relevantPages.with.rejected
         <=> \E i \in 0..(Len(readerColInfo) - 1) :
               Call(preloadRelevantPageInfo(readerPaths[1]), i) # "false"

\* --------------------------------------------------- no matching row lost
\* the stage that takes what the filter stages push: the first map of
\* loadFields, or the consumer when no field is asked for
FilterOut == CHOOSE i \in 1..(N + 1) : /\ stages[i].kind \in {"loadSplit", "sink"}
                                       /\ \A j \in 1..(i - 1) : stages[j].kind \notin {"loadSplit", "sink"}

\* the values of the row satisfy the item: the predicate, or one predicate
\* of an OR
ItemHolds(it, row) ==
  IF it.kind = "or"
  THEN \E c \in 1..Len(it.items) :
         Satisfies(it.items[c], ColumnValue(it.items[c].path, row))
  ELSE Satisfies(it, ColumnValue(it.path, row))

\* the values of the row satisfy every item of every phase of the filter
Matches(row) ==
  \A k \in 1..Len(spec.filter) : \A j \in 1..Len(spec.filter[k]) :
    ItemHolds(spec.filter[k][j], row)

MatchingRows == {row \in 0..(rowGroup.num_rows - 1) : Matches(row)}

\* C28: when the pipeline has run to its end, every row of the row group
\* whose values satisfy the filter is in a range that the filter stages
\* have pushed
C28_NoMatchingRowDropped ==
  (failed \/ Done) => MatchingRows \subseteq RowsOf(arrived[FilterOut])

\* a filter of two phases has run to its end; some rows match and are in
\* the ranges pushed, and a row that does not match has been dropped
C28_Witness ==
  /\ Done /\ Len(spec.filter) = 2
  /\ MatchingRows # {} /\ MatchingRows \subseteq RowsOf(arrived[FilterOut])
  /\ \E row \in 0..(rowGroup.num_rows - 1) : row \notin RowsOf(arrived[FilterOut])

\* ------------------------------------------- search.sort: what is emitted
\* what results() produces for the pages that pages() selects
SortResults == CandidateData(sortPath, SearchPages(sortPath, sortFile, 0))

\* how many records of s have the value v
Count(s, v) == Cardinality({k \in 1..Len(s) : s[k] = v})

\* C29: when the sorted stream has ended it has emitted every record that
\* results() produces for the selected pages exactly once
C29_SortLosesNothing ==
  sortAt = "ended" => \A v \in SortVals : Count(sortOut, v) = Count(SortResults, v)

\* no record is emitted more often than results() produces it
SortDuplicatesNothing ==
  \A v \in SortVals : Count(sortOut, v) <= Count(SortResults, v)

\* the records missing when the stream has ended are those left in the
\* buffer, all greater than the lowest max_value of the last round
SortLosesTheBuffer ==
  sortAt = "ended" =>
    \A v \in SortVals : Count(sortOut, v) + Count(sortBuffer, v) = Count(SortResults, v)

\* ------------------------------------ search.sort: the rounds of next()
\* init().then(next) with every page read of a round as a step of its own.
\* The files have one row group.
LoopFiles == {<<>>} \cup {<<rg>> : rg \in PageSeqs(MaxPages)}

\* init: as SortInitRun; loopTotal is pages.length
LoopInitRun ==
  /\ LoopFrame
  /\ loopAt = "init"
  /\ LET found == SearchPages(loopPath, loopFile, 0)
     IN /\ loopAt' = IF found # <<>> /\ ~ReadsColumnIndex(loopPath) THEN "error" ELSE "next"
        /\ loopPages' = found
        /\ loopTotal' = Len(found)
  /\ UNCHANGED <<loopFile, loopPath, loopLowestMax, loopReading, loopData, loopBuffer,
                 loopOut, loopRounds>>

\* next, up to await candidateResults.promise(): the candidates are written
\* to a stream that reads them
LoopRoundStart ==
  /\ LoopFrame
  /\ loopAt = "next" /\ loopRounds <= MaxPages
  /\ LET lowestMax == LowestMax(loopPages)
     IN /\ loopLowestMax' = lowestMax
        /\ loopReading' = {Candidates(loopPages, lowestMax)[k] :
                             k \in 1..Len(Candidates(loopPages, lowestMax))}
        /\ loopPages' = Remaining(loopPages, lowestMax)
  /\ loopData' = <<>>
  /\ loopRounds' = loopRounds + 1
  /\ loopAt' = "reading"
  /\ UNCHANGED <<loopFile, loopPath, loopTotal, loopBuffer, loopOut>>

\* results(candidate) completes, in any order of the candidates
LoopPageRead(c) ==
  /\ LoopFrame
  /\ loopAt = "reading" /\ c \in loopReading
  /\ loopReading' = loopReading \ {c}
  /\ loopData' = loopData \o Results(loopPath, c.values)
  /\ UNCHANGED <<loopFile, loopPath, loopPages, loopTotal, loopLowestMax, loopBuffer,
                 loopOut, loopRounds, loopAt>>

\* next, after the await: every read of the round has completed
LoopRoundFinish ==
  /\ LoopFrame
  /\ loopAt = "reading" /\ loopReading = {}
  /\ LET sorted == SortByField(loopBuffer \o loopData)
     IN /\ loopOut' = loopOut \o Pushed(sorted, loopLowestMax)
        /\ loopBuffer' = Kept(sorted, loopLowestMax)
  /\ loopAt' = IF loopPages # <<>> THEN "next" ELSE "ended"
  /\ UNCHANGED <<loopFile, loopPath, loopPages, loopTotal, loopLowestMax, loopReading,
                 loopData, loopRounds>>

LoopInit ==
  /\ LoopAlone
  /\ loopFile \in LoopFiles /\ loopPath \in SortPaths
  /\ loopPages = <<>> /\ loopTotal = 0 /\ loopLowestMax = 0 /\ loopReading = {}
  /\ loopData = <<>> /\ loopBuffer = <<>> /\ loopOut = <<>> /\ loopRounds = 0
  /\ loopAt = "init"

LoopNext ==
  \/ LoopInitRun
  \/ LoopRoundStart
  \/ \E c \in loopReading : LoopPageRead(c)
  \/ LoopRoundFinish

\* a continuation of a settled promise runs, and every page read that has
\* started completes
LoopSpec == LoopInit /\ [][LoopNext]_allVars /\ WF_allVars(LoopNext)

\* a round of next() leaves fewer pages than it found
RoundRemovesPage == LoopRoundStart => Len(loopPages') < Len(loopPages)

\* once init has given the pages their min_value and max_value, the stream
\* is ended in the end
SortEnds == (loopAt = "next") ~> (loopAt = "ended")

\* C30: every round of next() removes a page, the rounds are at most as many
\* as the pages, and the stream is ended in the end
C30_SortLoopTerminates ==
  /\ [][RoundRemovesPage]_allVars
  /\ [](loopRounds <= loopTotal)
  /\ SortEnds

\* C30 as it holds: every round of next() that finds a page removes a page,
\* the rounds are at most as many as the pages, or one when there is no
\* page, and the stream is ended in the end
C30_SortLoopTerminatesWithPages ==
  /\ [][loopPages # <<>> => RoundRemovesPage]_allVars
  /\ [](loopRounds <= (IF loopTotal = 0 THEN 1 ELSE loopTotal))
  /\ SortEnds

\* the stream has ended after as many rounds as there are pages, one page
\* a round
C30_Witness ==
  loopAt = "ended" /\ loopTotal = MaxPages /\ loopRounds = MaxPages

====
